---- MODULE Spec2Model ----
(***************************************************************************)
(* Case lifecycle of the rescue backend: the case service                  *)
(* (internal/service/case_service.go) running request handlers in          *)
(* parallel against the case repository (unnamed/part_008) and the         *)
(* PostgreSQL schema of migrations/000001_init_schema.up.sql.               *)
(*                                                                         *)
(* Every repository call is one database statement or one transaction and  *)
(* is one atomic step of the model; a handler is the sequence of its       *)
(* repository calls, and handlers of different requests interleave between *)
(* those calls.  Goroutines started by a handler (checkCaseCompletion) run *)
(* as background tasks.                                                    *)
(***************************************************************************)
EXTENDS Integers, Sequences, FiniteSets, Bags, TLC

\* ---------------------------------------------------------------- bounds
\* Requests the clients send in one behaviour of Spec.
MaxOps == 4
\* Requests the clients send in one behaviour of SpecSerial.
MaxSerialOps == 5
MaxFairOps == 4
\* Requests the clients send in one behaviour of SpecFaulty, and the storage
\* and push failures that happen in it.
MaxFaultyOps == 4
MaxFaults == 2
\* Requests the clients send in one behaviour of SpecCapacity.
MaxCapacityOps == 14
\* Requests and failing statements in one behaviour of SpecRacing.
MaxRacingOps == 5
MaxRacingFaults == 1
\* Requests the clients send in one behaviour of SpecLeaving.
MaxLeavingOps == 5
\* Allow calls and clock ticks in one behaviour of SpecLimiter.
MaxAllows == 6
MaxTime == 6
\* Requests and failing storage calls in one behaviour of SpecUpdating.
MaxUpdatingOps == 4
MaxUpdatingFaults == 1

\* ------------------------------------------------------------- universes
CaseIds == {"c1"}
Volunteers == {"u1", "u2"}
\* Enough volunteers to fill a case of DefaultMaxVolunteers (SpecSerial).
SerialVolunteers == {"u1", "u2", "u3"}
Reporters == {"r1"}
\* One volunteer more than a case of DefaultMaxVolunteers takes (SpecCapacity).
CapacityVolunteers == <<"u1", "u2", "u3", "u4", "u5", "u6">>
Users == Reporters \cup Volunteers \cup SerialVolunteers
            \cup {CapacityVolunteers[n] : n \in DOMAIN CapacityVolunteers}
\* Callers of Update and Delete: the reporter and one other user.
Requesters == {"r1", "u1"}
Workers == {"w1", "w2"}

Nil == "nil"

\* enum.CaseStatus
CaseStatusPending == "pending"
CaseStatusAccepted == "accepted"
CaseStatusInProgress == "in_progress"
CaseStatusResolved == "resolved"
CaseStatusCancelled == "cancelled"
CaseStatusExpired == "expired"

\* enum.VolunteerStatus
VolunteerStatusAccepted == "accepted"
VolunteerStatusEnRoute == "en_route"
VolunteerStatusOnSite == "on_site"
VolunteerStatusHandling == "handling"
VolunteerStatusCompleted == "completed"
VolunteerStatusWithdrawn == "withdrawn"

\* UpdateVolunteerStatusRequest.Status: oneof of the request DTO
VolunteerStatusInputs ==
    {VolunteerStatusAccepted, VolunteerStatusEnRoute, VolunteerStatusOnSite,
     VolunteerStatusHandling, VolunteerStatusCompleted, VolunteerStatusWithdrawn}

\* UpdateCaseRequest.Status: nil, or one of the DTO's oneof: a status that
\* reopens a case, the one no other operation writes, and a closed one.
CaseStatusInputs ==
    {Nil, CaseStatusPending, CaseStatusInProgress, CaseStatusResolved}

\* gorm default of Case.MaxVolunteers / cases.max_volunteers
DefaultMaxVolunteers == 5

\* CaseStatus.IsActive
IsActive(s) ==
    s = CaseStatusPending \/ s = CaseStatusAccepted \/ s = CaseStatusInProgress

\* ----------------------------------------------------------------- state
VARIABLES
    cases,               \* table cases: CaseIds -> row, NoCase when absent
    caseVolunteers,      \* table case_volunteers: set of rows
    caseUpdates,         \* table case_updates: CaseIds -> sequence of rows
    totalCasesResolved,  \* users.total_cases_resolved
    req,                 \* Workers -> the request a worker runs, with its locals
    response,            \* the response sent last: the handler and what it returned
    tasks,               \* bag of running goroutines
    opsStarted,          \* requests received so far
    totalCasesReported,  \* users.total_cases_reported
    faults,              \* storage and push failures that can still happen
    followed,            \* whether the goroutines of Create and Accept are followed
    call                 \* the query or function under test with its result

vars == <<cases, caseVolunteers, caseUpdates, totalCasesResolved, req, response, tasks,
          opsStarted, totalCasesReported, faults, followed, call>>
\* What the handlers of a request that neither fails nor queries leave alone
aside == <<totalCasesReported, faults, followed, call>>
\* What a goroutine leaves alone
ahead == <<req, opsStarted, followed, call>>
db == <<cases, caseVolunteers, caseUpdates, totalCasesResolved>>

NoCase ==
    [status |-> Nil, volunteerCount |-> 0, maxVolunteers |-> 0,
     reporterID |-> Nil, acceptedAt |-> FALSE, resolvedAt |-> FALSE,
     caseType |-> Nil, details |-> Nil]

Exists(cs, id) == cs[id].status # Nil

\* A worker with no request
NoRequest ==
    [op |-> Nil, pc |-> "idle", caseID |-> Nil, userID |-> Nil,
     status |-> Nil, c |-> NoCase]

\* What a handler returned to its caller
Response(op, result) == [op |-> op, result |-> result]

\* A worker inside a handler, about to make the repository call pc.
Running(op, pc, caseID, userID, status, c) ==
    [op |-> op, pc |-> pc, caseID |-> caseID, userID |-> userID,
     status |-> status, c |-> c]

\* entity.CaseUpdate
CaseUpdate(updateType, userID, oldStatus, newStatus) ==
    [updateType |-> updateType, userID |-> userID,
     oldStatus |-> oldStatus, newStatus |-> newStatus]

\* No query or function call is in progress
NoCall == [op |-> Nil]

\* Empty tables, idle workers, n failures to come; f: the run follows the
\* goroutines of Create and Accept, which write nothing but
\* users.total_cases_reported and the push transport.
StartWith(n, f, c) ==
    /\ cases = [id \in CaseIds |-> NoCase]
    /\ caseVolunteers = {}
    /\ caseUpdates = [id \in CaseIds |-> <<>>]
    /\ totalCasesResolved = [u \in Users |-> 0]
    /\ req = [w \in Workers |-> NoRequest]
    /\ response = Response(Nil, Nil)
    /\ tasks = EmptyBag
    /\ opsStarted = 0
    /\ totalCasesReported = [u \in Users |-> 0]
    /\ faults = n
    /\ followed = f
    /\ call = c

Start(n, f) == StartWith(n, f, NoCall)

Init == Start(0, FALSE)

\* ------------------------------------------------------ repository reads
\* caseRepository.GetVolunteer: the row of (caseID, volunteerID), Nil if none
VolunteerRows(cvs, caseID, volunteerID) ==
    {v \in cvs : v.caseID = caseID /\ v.volunteerID = volunteerID}

GetVolunteer(cvs, caseID, volunteerID) ==
    LET rows == VolunteerRows(cvs, caseID, volunteerID)
    IN  IF rows = {} THEN Nil
        ELSE (CHOOSE v \in rows : \A o \in rows : v.id <= o.id).status

\* caseRepository.GetVolunteersByCaseID
GetVolunteersByCaseID(cvs, caseID) ==
    {v \in cvs : v.caseID = caseID}

\* ----------------------------------------------------- repository writes
\* Trigger update_case_volunteer_count, AFTER INSERT ON case_volunteers
update_volunteer_count(cs, caseID) ==
    [cs EXCEPT ![caseID].volunteerCount = @ + 1]

\* Mutant: the table without its unique constraint
UniqueViolation_Unconstrained(cvs, caseID, volunteerID) == FALSE

\* UNIQUE(case_id, volunteer_id) of case_volunteers
UniqueViolation(cvs, caseID, volunteerID) ==
    VolunteerRows(cvs, caseID, volunteerID) # {}

\* The row Accept builds; the id is a fresh uuid.
NewCaseVolunteer(cvs, caseID, volunteerID) ==
    [id |-> Cardinality(cvs) + 1, caseID |-> caseID, volunteerID |-> volunteerID,
     status |-> VolunteerStatusAccepted, arrivedAt |-> FALSE, completedAt |-> FALSE]

\* Mutant: AddVolunteer without the pending -> accepted flip
AddVolunteerCases_NoFlip(cs, caseID) ==
    [cs EXCEPT ![caseID].volunteerCount = @ + 2]

\* caseRepository.AddVolunteer, the rows of cases after the transaction:
\* the insert fires the trigger, then volunteer_count + 1, then the
\* pending -> accepted flip WHERE status = 'pending'.
AddVolunteerCases(cs, caseID) ==
    LET inserted == update_volunteer_count(cs, caseID)
        counted == [inserted EXCEPT ![caseID].volunteerCount = @ + 1]
    IN  IF counted[caseID].status = CaseStatusPending
        THEN [counted EXCEPT ![caseID].status = CaseStatusAccepted,
                             ![caseID].acceptedAt = TRUE]
        ELSE counted

\* caseRepository.ReactivateVolunteer
ReactivateVolunteerRows(cvs, caseID, volunteerID) ==
    {IF v.caseID = caseID /\ v.volunteerID = volunteerID
     THEN [v EXCEPT !.status = VolunteerStatusAccepted,
                    !.arrivedAt = FALSE, !.completedAt = FALSE]
     ELSE v : v \in cvs}

\* A reactivation counted twice, as an insert is
ReactivateVolunteerCases_Triggered(cs, caseID) ==
    update_volunteer_count([cs EXCEPT ![caseID].volunteerCount = @ + 1], caseID)

ReactivateVolunteerCases(cs, caseID) ==
    [cs EXCEPT ![caseID].volunteerCount = @ + 1]

\* caseRepository.RemoveVolunteer
RemoveVolunteerRows(cvs, caseID, volunteerID) ==
    {IF v.caseID = caseID /\ v.volunteerID = volunteerID
     THEN [v EXCEPT !.status = VolunteerStatusWithdrawn]
     ELSE v : v \in cvs}

\* Mutant: the decrement without its floor
RemoveVolunteerCases_Unfloored(cs, caseID) ==
    [cs EXCEPT ![caseID].volunteerCount = @ - 1]

\* GREATEST(0, volunteer_count - 1)
RemoveVolunteerCases(cs, caseID) ==
    [cs EXCEPT ![caseID].volunteerCount = IF @ - 1 > 0 THEN @ - 1 ELSE 0]

\* caseRepository.UpdateVolunteerStatus
UpdateVolunteerStatusRows(cvs, caseID, volunteerID, status) ==
    {IF v.caseID = caseID /\ v.volunteerID = volunteerID
     THEN [v EXCEPT !.status = status,
                    !.arrivedAt = IF status = VolunteerStatusOnSite THEN TRUE ELSE @,
                    !.completedAt = IF status = VolunteerStatusCompleted THEN TRUE ELSE @]
     ELSE v : v \in cvs}

\* caseRepository.UpdateStatus
RepoUpdateStatus(cs, id, status) ==
    IF ~Exists(cs, id) THEN cs
    ELSE [cs EXCEPT ![id].status = status,
                    ![id].acceptedAt = IF status = CaseStatusAccepted THEN TRUE ELSE @,
                    ![id].resolvedAt = IF status = CaseStatusResolved THEN TRUE ELSE @]

\* A delete that removes the case record
RepoDelete_Hard(cs, id) == [cs EXCEPT ![id] = NoCase]

\* caseRepository.Delete
RepoDelete(cs, id) ==
    IF ~Exists(cs, id) THEN cs ELSE [cs EXCEPT ![id].status = CaseStatusCancelled]

\* caseRepository.Update: gorm Save writes every column of the entity.
RepoUpdate(cs, id, c) ==
    [cs EXCEPT ![id] = c]

\* caseRepository.CreateUpdate
RepoCreateUpdate(ups, caseID, update) ==
    [ups EXCEPT ![caseID] = Append(@, update)]

\* userRepository.IncrementCasesResolved, for each user of a set
IncrementCasesResolved(total, users) ==
    [u \in Users |-> IF u \in users THEN total[u] + 1 ELSE total[u]]

\* ------------------------------------------------------------- handlers
Idle(w) == req[w].pc = "idle"

Receive(w) ==
    /\ Idle(w)
    /\ opsStarted' = opsStarted + 1

At(w, op, pc) == req[w].op = op /\ req[w].pc = pc

Return(w, result) ==
    /\ req' = [req EXCEPT ![w] = NoRequest]
    /\ response' = Response(req[w].op, result)

Goto(w, pc) ==
    /\ req' = [req EXCEPT ![w].pc = pc]
    /\ UNCHANGED response

\* The first repository call of a handler: it returns err at once, or goes on.
Begin(w, err, running) ==
    IF err # Nil
    THEN /\ UNCHANGED req
         /\ response' = Response(running.op, err)
    ELSE /\ req' = [req EXCEPT ![w] = running]
         /\ UNCHANGED response

\* enum.CaseType
CaseTypeAnimal == "animal"
CaseTypeFlood == "flood"
CaseTypeAccident == "accident"
CaseTypes == {CaseTypeAnimal, CaseTypeFlood, CaseTypeAccident}

\* caseService.Create, lines 81-118: a flood case always gets its detail
\* record, an animal or accident case only when the request names the animal
\* type and condition, or the accident type.
Details(caseType, hasFields) ==
    IF caseType = CaseTypeFlood \/ hasFields THEN caseType ELSE Nil

NewCase(reporterID, caseType, details) ==
    [status |-> CaseStatusPending, volunteerCount |-> 0,
     maxVolunteers |-> DefaultMaxVolunteers, reporterID |-> reporterID,
     acceptedAt |-> FALSE, resolvedAt |-> FALSE,
     caseType |-> caseType, details |-> details]

\* The statement of caseRepository.Create's transaction that fails, Nil if none
CreateFailures == {Nil, "case", "details", "update"}

\* caseRepository.Create, lines 63-112: what the statements before the failing
\* one have written: the case, then its detail record, then the system update.
CreateInserts(cs, ups, id, c, failure) ==
    LET withCase == IF failure = "case" THEN cs
                    ELSE [cs EXCEPT ![id] = [c EXCEPT !.details = Nil]]
        withDetails == IF failure \in {"case", "details"} THEN withCase
                       ELSE [withCase EXCEPT ![id].details = c.details]
        withUpdate == IF failure # Nil THEN ups
                      ELSE RepoCreateUpdate(ups, id,
                               CaseUpdate("system", Nil, Nil, c.status))
    IN  <<withDetails, withUpdate>>

\* A transaction that keeps what was written before the failure
Transaction_NoRollback(before, written, err) == written

\* gorm Transaction: commit when the function returns nil, else roll back
Transaction(before, written, err) == IF err = Nil THEN written ELSE before

\* caseService.Create, lines 126-136: the goroutines started after the commit
CreateGoroutines(id, reporterID) ==
    (IF followed /\ reporterID # Nil
     THEN SetToBag({[pc |-> "incrementCasesReported", userID |-> reporterID]})
     ELSE EmptyBag)
    (+) (IF followed
         THEN SetToBag({[pc |-> "findAvailableVolunteers", caseID |-> id]})
         ELSE EmptyBag)

\* caseService.Create with caseRepository.Create
Create(w, id, reporterID, caseType, hasFields, failure) ==
    /\ Receive(w)
    /\ ~Exists(cases, id)
    /\ failure # Nil => faults > 0
    /\ failure = "details" => Details(caseType, hasFields) # Nil
    /\ LET c == NewCase(reporterID, caseType, Details(caseType, hasFields))
           written == CreateInserts(cases, caseUpdates, id, c, failure)
           stored == Transaction(<<cases, caseUpdates>>, written, failure)
       IN  /\ cases' = stored[1]
           /\ caseUpdates' = stored[2]
    /\ faults' = IF failure # Nil THEN faults - 1 ELSE faults
    /\ tasks' = IF failure # Nil THEN tasks
                ELSE tasks (+) CreateGoroutines(id, reporterID)
    /\ response' = Response("Create", IF failure # Nil THEN "STORAGE_ERROR" ELSE "ok")
    /\ UNCHANGED <<req, caseVolunteers, totalCasesResolved, totalCasesReported, followed, call>>

\* The statement of AddVolunteer's transaction that fails, Nil if none
AddVolunteerFailures == {Nil, "insert", "count", "flip"}

\* caseRepository.AddVolunteer, lines 295-315: what the statements before
\* the failing one have written to cases and case_volunteers: the insert with
\* its trigger, then volunteer_count + 1, then the flip of a pending case.
AddVolunteerWrites(cs, cvs, caseID, volunteerID, failure) ==
    LET inserted == update_volunteer_count(cs, caseID)
        rows == cvs \cup {NewCaseVolunteer(cvs, caseID, volunteerID)}
        counted == [inserted EXCEPT ![caseID].volunteerCount = @ + 1]
    IN  CASE failure = "insert" -> <<cs, cvs>>
          [] failure = "count" -> <<inserted, rows>>
          [] failure = "flip" -> <<counted, rows>>
          [] OTHER -> <<AddVolunteerCases(cs, caseID), rows>>

\* The statement of ReactivateVolunteer's or RemoveVolunteer's transaction
\* that fails, Nil if none
VolunteerUpdateFailures == {Nil, "update", "count"}

\* caseRepository.ReactivateVolunteer, lines 351-373
ReactivateVolunteerWrites(cs, cvs, caseID, volunteerID, failure) ==
    CASE failure = "update" -> <<cs, cvs>>
      [] failure = "count" -> <<cs, ReactivateVolunteerRows(cvs, caseID, volunteerID)>>
      [] OTHER -> <<ReactivateVolunteerCases(cs, caseID),
                    ReactivateVolunteerRows(cvs, caseID, volunteerID)>>

\* caseRepository.RemoveVolunteer, lines 377-389
RemoveVolunteerWrites(cs, cvs, caseID, volunteerID, failure) ==
    CASE failure = "update" -> <<cs, cvs>>
      [] failure = "count" -> <<cs, RemoveVolunteerRows(cvs, caseID, volunteerID)>>
      [] OTHER -> <<RemoveVolunteerCases(cs, caseID),
                    RemoveVolunteerRows(cvs, caseID, volunteerID)>>

\* A transaction of a handler runs: failure is the statement that fails, one
\* of the failures still to come; the handler returns the storage error, or
\* goes on to its next call.  First the same statements run one by one
\* outside a transaction.
Commits_Autocommit(w, written, failure, injected, next) ==
    /\ injected => faults > 0
    /\ faults' = IF injected THEN faults - 1 ELSE faults
    /\ cases' = written[1]
    /\ caseVolunteers' = written[2]
    /\ IF failure # Nil THEN Return(w, "STORAGE_ERROR") ELSE Goto(w, next)

Commits(w, written, failure, injected, next) ==
    /\ injected => faults > 0
    /\ faults' = IF injected THEN faults - 1 ELSE faults
    /\ LET stored == Transaction(<<cases, caseVolunteers>>, written, failure)
       IN  /\ cases' = stored[1]
           /\ caseVolunteers' = stored[2]
    /\ IF failure # Nil THEN Return(w, "STORAGE_ERROR") ELSE Goto(w, next)

\* Mutant: Accept without the capacity check
AcceptCheck_NoCapacity(c) ==
    IF c.status = Nil THEN "CASE_NOT_FOUND"
    ELSE IF ~IsActive(c.status) THEN "CASE_CLOSED"
    ELSE Nil

\* caseService.Accept, lines 267-283: the checks on the case just read
AcceptCheck(c) ==
    IF c.status = Nil THEN "CASE_NOT_FOUND"
    ELSE IF ~IsActive(c.status) THEN "CASE_CLOSED"
    ELSE IF c.volunteerCount >= c.maxVolunteers THEN "MAX_VOLUNTEERS"
    ELSE Nil

Accept(w, caseID, volunteerID) ==
    /\ Receive(w)
    /\ LET c == cases[caseID]
           err == AcceptCheck(c)
       IN  Begin(w, err, Running("Accept", "getVolunteer", caseID, volunteerID, Nil, c))
    /\ UNCHANGED <<db, tasks, aside>>

\* Mutant: Accept reactivates whatever row it finds
AcceptBranch_AlwaysRejoin(existing) ==
    IF existing = Nil THEN "addVolunteer" ELSE "reactivateVolunteer"

\* caseService.Accept, lines 305-320: the branch on the existing record
AcceptBranch(existing) ==
    IF existing = Nil THEN "addVolunteer"
    ELSE IF existing = VolunteerStatusWithdrawn THEN "reactivateVolunteer"
    ELSE "ALREADY_ACCEPTED"

AcceptGetVolunteer(w) ==
    /\ At(w, "Accept", "getVolunteer")
    /\ LET existing == GetVolunteer(caseVolunteers, req[w].caseID, req[w].userID)
           next == AcceptBranch(existing)
       IN  IF next = "ALREADY_ACCEPTED"
           THEN Return(w, "ALREADY_ACCEPTED")
           ELSE /\ req' = [req EXCEPT ![w].pc = next,
                                      ![w].c = [NoCase EXCEPT !.reporterID =
                                                   IF followed THEN req[w].c.reporterID
                                                   ELSE Nil]]
                /\ UNCHANGED response
    /\ UNCHANGED <<db, tasks, opsStarted, aside>>

\* caseRepository.AddVolunteer; a unique violation rolls the transaction back
\* and Accept returns the storage error.
AcceptAddVolunteer(w) ==
    /\ At(w, "Accept", "addVolunteer")
    /\ \E injected \in AddVolunteerFailures :
          LET caseID == req[w].caseID
              volunteerID == req[w].userID
              failure == IF UniqueViolation(caseVolunteers, caseID, volunteerID)
                         THEN "insert" ELSE injected
          IN  Commits(w, AddVolunteerWrites(cases, caseVolunteers, caseID, volunteerID,
                                            failure),
                      failure, injected # Nil, "createUpdate")
    /\ UNCHANGED <<caseUpdates, totalCasesResolved, tasks, opsStarted,
                   totalCasesReported, followed, call>>

AcceptReactivateVolunteer(w) ==
    /\ At(w, "Accept", "reactivateVolunteer")
    /\ \E failure \in VolunteerUpdateFailures :
          Commits(w, ReactivateVolunteerWrites(cases, caseVolunteers, req[w].caseID,
                                               req[w].userID, failure),
                  failure, failure # Nil, "createUpdate")
    /\ UNCHANGED <<caseUpdates, totalCasesResolved, tasks, opsStarted,
                   totalCasesReported, followed, call>>

\* caseService.Accept, line 351, with notifyReporterOfAcceptance's early
\* return for a case without reporter
AcceptGoroutines(c, caseID) ==
    IF followed /\ c.reporterID # Nil
    THEN SetToBag({[pc |-> "notifyReporterOfAcceptance", caseID |-> caseID]})
    ELSE EmptyBag

AcceptCreateUpdate(w) ==
    /\ At(w, "Accept", "createUpdate")
    /\ caseUpdates' = RepoCreateUpdate(caseUpdates, req[w].caseID,
                          CaseUpdate("volunteer_joined", req[w].userID, Nil, Nil))
    /\ tasks' = tasks (+) AcceptGoroutines(req[w].c, req[w].caseID)
    /\ Return(w, "ok")
    /\ UNCHANGED <<cases, caseVolunteers, totalCasesResolved, opsStarted, aside>>

\* Mutant: a handler that goes on without a volunteer record
VolunteerCheck_Skipped(cv) == Nil

\* caseService.Withdraw and UpdateVolunteerStatus: if cv == nil
VolunteerCheck(cv) == IF cv = Nil THEN "NOT_ACCEPTED" ELSE Nil

\* caseService.Withdraw
Withdraw(w, caseID, volunteerID) ==
    /\ Receive(w)
    /\ LET cv == GetVolunteer(caseVolunteers, caseID, volunteerID)
       IN  Begin(w, VolunteerCheck(cv),
                 Running("Withdraw", "removeVolunteer", caseID, volunteerID, Nil, NoCase))
    /\ UNCHANGED <<db, tasks, aside>>

WithdrawRemoveVolunteer(w) ==
    /\ At(w, "Withdraw", "removeVolunteer")
    /\ \E failure \in VolunteerUpdateFailures :
          Commits(w, RemoveVolunteerWrites(cases, caseVolunteers, req[w].caseID,
                                           req[w].userID, failure),
                  failure, failure # Nil, "createUpdate")
    /\ UNCHANGED <<caseUpdates, totalCasesResolved, tasks, opsStarted,
                   totalCasesReported, followed, call>>

WithdrawCreateUpdate(w) ==
    /\ At(w, "Withdraw", "createUpdate")
    /\ caseUpdates' = RepoCreateUpdate(caseUpdates, req[w].caseID,
                          CaseUpdate("volunteer_withdrawn", req[w].userID, Nil, Nil))
    /\ Return(w, "ok")
    /\ UNCHANGED <<cases, caseVolunteers, totalCasesResolved, tasks, opsStarted, aside>>

\* caseService.UpdateVolunteerStatus
UpdateVolunteerStatus(w, caseID, volunteerID, status) ==
    /\ Receive(w)
    /\ LET cv == GetVolunteer(caseVolunteers, caseID, volunteerID)
       IN  Begin(w, VolunteerCheck(cv),
                 Running("UpdateVolunteerStatus", "updateVolunteerStatus", caseID,
                         volunteerID, status, NoCase))
    /\ UNCHANGED <<db, tasks, aside>>

UpdateVolunteerStatusWrite(w) ==
    /\ At(w, "UpdateVolunteerStatus", "updateVolunteerStatus")
    /\ caseVolunteers' = UpdateVolunteerStatusRows(caseVolunteers, req[w].caseID,
                             req[w].userID, req[w].status)
    /\ Goto(w, "createUpdate")
    /\ UNCHANGED <<cases, caseUpdates, totalCasesResolved, tasks, opsStarted, aside>>

\* A checkCaseCompletion goroutine that has not read the volunteers yet
NewTask(caseID) == [pc |-> "getVolunteers", caseID |-> caseID, volunteers |-> {}]

\* A handler that never starts the goroutine
SpawnsCompletionCheck_Never(status) == FALSE

\* caseService.UpdateVolunteerStatus, lines 439-442
SpawnsCompletionCheck(status) == status = VolunteerStatusCompleted

UpdateVolunteerStatusCreateUpdate(w) ==
    /\ At(w, "UpdateVolunteerStatus", "createUpdate")
    /\ caseUpdates' = RepoCreateUpdate(caseUpdates, req[w].caseID,
                          CaseUpdate("volunteer_update", req[w].userID, Nil, Nil))
    /\ tasks' = IF SpawnsCompletionCheck(req[w].status)
                THEN tasks (+) SetToBag({NewTask(req[w].caseID)})
                ELSE tasks
    /\ Return(w, "ok")
    /\ UNCHANGED <<cases, caseVolunteers, totalCasesResolved, opsStarted, aside>>

\* A permission check that lets anyone change a case without reporter
IsReporter_OrAnonymous(c, userID) == c.reporterID = Nil \/ c.reporterID = userID

\* caseService.Update / Delete, the permission check: only the reporter
IsReporter(c, userID) == c.reporterID # Nil /\ c.reporterID = userID

OwnerCheck(c, userID) ==
    IF c.status = Nil THEN "CASE_NOT_FOUND"
    ELSE IF ~IsReporter(c, userID) THEN "FORBIDDEN"
    ELSE Nil

\* caseService.Update: read, then the status-change update when the patch has
\* a status, then Save of the entity read at the start.
Update(w, caseID, userID, status) ==
    /\ Receive(w)
    /\ LET c == cases[caseID]
           err == OwnerCheck(c, userID)
       IN  Begin(w, err, Running("Update", IF status # Nil THEN "createUpdate" ELSE "save",
                                 caseID, userID, status, c))
    /\ UNCHANGED <<db, tasks, aside>>

\* A storage call of a handler fails: one failure is used up
Failing(failure) ==
    /\ failure => faults > 0
    /\ faults' = IF failure THEN faults - 1 ELSE faults

\* lines 211-226: a failed CreateUpdate is logged and Update goes on
UpdateCreateUpdate(w) ==
    /\ At(w, "Update", "createUpdate")
    /\ \E failure \in BOOLEAN :
          /\ Failing(failure)
          /\ caseUpdates' =
                IF failure THEN caseUpdates
                ELSE RepoCreateUpdate(caseUpdates, req[w].caseID,
                         CaseUpdate("status_change", req[w].userID,
                                    req[w].c.status, req[w].status))
    /\ req' = [req EXCEPT ![w].pc = "save", ![w].c.status = req[w].status]
    /\ UNCHANGED <<response, cases, caseVolunteers, totalCasesResolved, tasks, opsStarted,
                   totalCasesReported, followed, call>>

\* lines 234-237: a failed Save is returned to the caller
UpdateSave(w) ==
    /\ At(w, "Update", "save")
    /\ \E failure \in BOOLEAN :
          /\ Failing(failure)
          /\ cases' = IF failure THEN cases
                      ELSE RepoUpdate(cases, req[w].caseID, req[w].c)
          /\ Return(w, IF failure THEN "STORAGE_ERROR" ELSE "ok")
    /\ UNCHANGED <<caseVolunteers, caseUpdates, totalCasesResolved, tasks, opsStarted,
                   totalCasesReported, followed, call>>

\* caseService.Delete
Delete(w, caseID, userID) ==
    /\ Receive(w)
    /\ LET c == cases[caseID]
           err == OwnerCheck(c, userID)
       IN  Begin(w, err, Running("Delete", "delete", caseID, userID, Nil, NoCase))
    /\ UNCHANGED <<db, tasks, aside>>

DeleteWrite(w) ==
    /\ At(w, "Delete", "delete")
    /\ cases' = RepoDelete(cases, req[w].caseID)
    /\ Return(w, "ok")
    /\ UNCHANGED <<caseVolunteers, caseUpdates, totalCasesResolved, tasks, opsStarted, aside>>

\* ------------------------------------------------- checkCaseCompletion
Done(status) ==
    status = VolunteerStatusCompleted \/ status = VolunteerStatusWithdrawn

\* lines 579-588: allDone && len(volunteers) > 0
AllDone(volunteers) ==
    volunteers # {} /\ \A v \in volunteers : Done(v.status)

Replace(t, u) == (tasks (-) SetToBag({t})) (+) SetToBag({u})

\* A goroutine that surfaces its failure in what the handler returned
Logged_Surfaced(resp, failure) ==
    IF failure THEN [resp EXCEPT !.result = "STORAGE_ERROR"] ELSE resp

\* s.log.Warn / s.log.Error in a goroutine: the failure is logged, and what
\* the handler returned to its caller stays as it is
Logged(resp, failure) == resp

\* A repository or push call of a goroutine fails: one failure is used up
Fails(failure) ==
    /\ failure => faults > 0
    /\ faults' = IF failure THEN faults - 1 ELSE faults
    /\ response' = Logged(response, failure)

\* lines 572-588: read the volunteers and decide; a failed read is logged and
\* the goroutine returns
checkCaseCompletion(t) ==
    /\ BagIn(t, tasks)
    /\ t.pc = "getVolunteers"
    /\ \E failure \in BOOLEAN :
          /\ Fails(failure)
          /\ LET volunteers == GetVolunteersByCaseID(caseVolunteers, t.caseID)
             IN  tasks' = IF ~failure /\ AllDone(volunteers)
                          THEN Replace(t, [t EXCEPT !.pc = "updateStatus",
                                                    !.volunteers = volunteers])
                          ELSE tasks (-) SetToBag({t})
    /\ UNCHANGED <<db, totalCasesReported, ahead>>

\* lines 589-593: UpdateStatus(caseID, resolved); a failure is logged and the
\* goroutine returns
checkCaseCompletionResolve(t) ==
    /\ BagIn(t, tasks)
    /\ t.pc = "updateStatus"
    /\ \E failure \in BOOLEAN :
          /\ Fails(failure)
          /\ cases' = IF failure THEN cases
                      ELSE RepoUpdateStatus(cases, t.caseID, CaseStatusResolved)
          /\ tasks' = IF failure THEN tasks (-) SetToBag({t})
                      ELSE Replace(t, [t EXCEPT !.pc = "incrementCasesResolved"])
    /\ UNCHANGED <<caseVolunteers, caseUpdates, totalCasesResolved,
                   totalCasesReported, ahead>>

\* lines 595-602: the volunteers the goroutine read as completed
Credited(volunteers) ==
    {v.volunteerID : v \in {x \in volunteers : x.status = VolunteerStatusCompleted}}

\* lines 596-602: a failed increment is logged and the loop goes on
checkCaseCompletionCredit(t) ==
    /\ BagIn(t, tasks)
    /\ t.pc = "incrementCasesResolved"
    /\ \E failed \in SUBSET Credited(t.volunteers) :
          /\ Cardinality(failed) <= faults
          /\ faults' = faults - Cardinality(failed)
          /\ response' = Logged(response, failed # {})
          /\ totalCasesResolved' =
                 IncrementCasesResolved(totalCasesResolved, Credited(t.volunteers) \ failed)
    /\ tasks' = tasks (-) SetToBag({t})
    /\ UNCHANGED <<cases, caseVolunteers, caseUpdates, totalCasesReported, ahead>>

\* ------------------------------------------ goroutines of Create and Accept
\* userRepository.IncrementCasesReported, for each user of a set
IncrementCasesReported(total, users) ==
    [u \in Users |-> IF u \in users THEN total[u] + 1 ELSE total[u]]

\* caseService.Create, lines 127-133: a failed increment is logged
incrementCasesReported(t) ==
    /\ BagIn(t, tasks)
    /\ t.pc = "incrementCasesReported"
    /\ \E failure \in BOOLEAN :
          /\ Fails(failure)
          /\ totalCasesReported' =
                 IncrementCasesReported(totalCasesReported,
                                        IF failure THEN {} ELSE {t.userID})
    /\ tasks' = tasks (-) SetToBag({t})
    /\ UNCHANGED <<db, ahead>>

\* notifyNearbyVolunteers, lines 537-542: when FindAvailableVolunteers fails
\* the goroutine logs and returns
notifyNearbyVolunteers(t) ==
    /\ BagIn(t, tasks)
    /\ t.pc = "findAvailableVolunteers"
    /\ \E failure \in BOOLEAN :
          /\ Fails(failure)
          /\ tasks' = IF failure THEN tasks (-) SetToBag({t})
                      ELSE Replace(t, [t EXCEPT !.pc = "sendToUser"])
    /\ UNCHANGED <<db, totalCasesReported, ahead>>

\* notifyNearbyVolunteers, lines 544-549: the sends; a failed send is logged
notifyNearbyVolunteersSend(t) ==
    /\ BagIn(t, tasks)
    /\ t.pc = "sendToUser"
    /\ \E failure \in BOOLEAN : Fails(failure)
    /\ tasks' = tasks (-) SetToBag({t})
    /\ UNCHANGED <<db, totalCasesReported, ahead>>

\* notifyReporterOfAcceptance, lines 562-566: a failed send is logged
notifyReporterOfAcceptance(t) ==
    /\ BagIn(t, tasks)
    /\ t.pc = "notifyReporterOfAcceptance"
    /\ \E failure \in BOOLEAN : Fails(failure)
    /\ tasks' = tasks (-) SetToBag({t})
    /\ UNCHANGED <<db, totalCasesReported, ahead>>

\* ------------------------------------------------------------- geometry
\* Coordinates are whole degrees; a sine or cosine is a whole number of
\* ten-thousandths, a distance a whole number of kilometres.  NilPoint is the
\* nil *GeoPoint.
NilPoint == <<>>

\* entity.NewGeoPoint
NewGeoPoint(lat, lng) == [latitude |-> lat, longitude |-> lng]

\* math.Sin of 0..90 degrees, in ten-thousandths
SinTable ==
    <<
      175, 349, 523, 698, 872, 1045, 1219, 1392, 1564,
      1736, 1908, 2079, 2250, 2419, 2588, 2756, 2924, 3090, 3256,
      3420, 3584, 3746, 3907, 4067, 4226, 4384, 4540, 4695, 4848,
      5000, 5150, 5299, 5446, 5592, 5736, 5878, 6018, 6157, 6293,
      6428, 6561, 6691, 6820, 6947, 7071, 7193, 7314, 7431, 7547,
      7660, 7771, 7880, 7986, 8090, 8192, 8290, 8387, 8480, 8572,
      8660, 8746, 8829, 8910, 8988, 9063, 9135, 9205, 9272, 9336,
      9397, 9455, 9511, 9563, 9613, 9659, 9703, 9744, 9781, 9816,
      9848, 9877, 9903, 9925, 9945, 9962, 9976, 9986, 9994, 9998,
      10000
    >>

\* math.Sin: the sign is taken off the argument and put back on the result
Sin(deg) ==
    LET x == IF deg < 0 THEN -deg ELSE deg
        r == x % 360
        h == r % 180
        v == IF h = 0 THEN 0
             ELSE IF h <= 90 THEN SinTable[h] ELSE SinTable[180 - h]
        u == IF r >= 180 THEN -v ELSE v
    IN  IF deg < 0 THEN -u ELSE u

\* math.Cos
Cos(deg) == Sin((IF deg < 0 THEN -deg ELSE deg) + 90)

\* math.Sqrt of a whole number, rounded down, looked for between lo and hi
RECURSIVE SqrtBetween(_, _, _)
SqrtBetween(n, lo, hi) ==
    IF lo >= hi THEN lo
    ELSE LET mid == (lo + hi + 1) \div 2
         IN  IF mid * mid <= n THEN SqrtBetween(n, mid, hi)
             ELSE SqrtBetween(n, lo, mid - 1)

Sqrt(n) == IF n <= 0 THEN 0 ELSE SqrtBetween(n, 0, 10000)

\* The angle, in thousandths of a degree, whose sine is s ten-thousandths:
\* the table read backwards, in a straight line between two entries
RECURSIVE DegreesBelow(_, _)
DegreesBelow(s, k) ==
    IF k = 0 \/ SinTable[k] <= s THEN k ELSE DegreesBelow(s, k - 1)

Asin(s) ==
    IF s <= 0 THEN 0
    ELSE IF s >= 10000 THEN 90000
    ELSE LET k == DegreesBelow(s, 90)
             below == IF k = 0 THEN 0 ELSE SinTable[k]
         IN  k * 1000 + ((s - below) * 1000) \div (SinTable[k + 1] - below)

\* GeoPoint.DistanceKm, line 58
earthRadiusKm == 6371

\* GeoPoint.DistanceKm: Haversine.  a is in hundred-millionths; c = 2 *
\* atan2(sqrt(a), sqrt(1 - a)) is twice the angle whose sine is sqrt(a), in
\* thousandths of a degree; perDegree is the hundredths of a kilometre in one
\* degree of arc.
DistanceKm_OwnLatitude(g, other) ==
    IF g = NilPoint \/ other = NilPoint THEN 0
    ELSE LET deltaLat == other.latitude - g.latitude
             deltaLng == other.longitude - g.longitude
             sinLat == Sin(deltaLat \div 2)
             sinLng == Sin(deltaLng \div 2)
             a == sinLat * sinLat
                    + ((Cos(g.latitude) * Cos(g.latitude)) \div 10000)
                        * ((sinLng * sinLng) \div 10000)
             c == 2 * Asin(Sqrt(a))
             perDegree == (earthRadiusKm * 31416) \div 18000
         IN  ((c \div 10) * perDegree) \div 10000

DistanceKm(g, other) ==
    IF g = NilPoint \/ other = NilPoint THEN 0
    ELSE LET deltaLat == other.latitude - g.latitude
             deltaLng == other.longitude - g.longitude
             sinLat == Sin(deltaLat \div 2)
             sinLng == Sin(deltaLng \div 2)
             a == sinLat * sinLat
                    + ((Cos(g.latitude) * Cos(other.latitude)) \div 10000)
                        * ((sinLng * sinLng) \div 10000)
             c == 2 * Asin(Sqrt(a))
             perDegree == (earthRadiusKm * 31416) \div 18000
         IN  ((c \div 10) * perDegree) \div 10000

\* A column or pointer that may be NULL or nil
Null == <<>>
Some(v) == <<v>>
Value(o) == o[1]

\* entity.NewBoundingBox, line 92
kmPerDegLat == 111

\* entity.NewBoundingBox: the box in thousandths of a degree
NewBoundingBox(lat, lng, radiusKm) ==
    LET latDelta == (radiusKm * 1000) \div kmPerDegLat
        perDegLng == (kmPerDegLat * Cos(lat)) \div 100
        lngDelta == IF perDegLng = 0 THEN 100000000
                    ELSE (radiusKm * 100000) \div perDegLng
    IN  [MinLat |-> lat * 1000 - latDelta, MaxLat |-> lat * 1000 + latDelta,
         MinLng |-> lng * 1000 - lngDelta, MaxLng |-> lng * 1000 + lngDelta]

\* "latitude BETWEEN MinLat AND MaxLat AND longitude BETWEEN MinLng AND MaxLng"
Between(bbox, point) ==
    /\ bbox.MinLat <= point.latitude * 1000 /\ point.latitude * 1000 <= bbox.MaxLat
    /\ bbox.MinLng <= point.longitude * 1000 /\ point.longitude * 1000 <= bbox.MaxLng

\* sort.Slice is not stable: every order of the rows that the less function
\* allows is an order it can leave them in.  less is the set of the pairs
\* <<a, b>> the less function is true of.
Orders(rows) ==
    {order \in [1..Cardinality(rows) -> rows] :
        \A i, j \in 1..Cardinality(rows) : i # j => order[i] # order[j]}

SortSlice(rows, less) ==
    {order \in Orders(rows) :
        \A i, j \in 1..Cardinality(rows) : i < j => <<order[j], order[i]>> \notin less}

\* rows[:limit] when limit > 0 and there are more rows than limit
ApplyLimit(rows, limit) ==
    IF limit > 0 /\ Len(rows) > limit THEN SubSeq(rows, 1, limit) ELSE rows

\* ------------------------------------------------- FindAvailableVolunteers
\* What the LEFT JOIN gives for a user without a user_preferences row
NoPreferences ==
    [pushEnabled |-> Null, caseTypes |-> Null, notificationRadiusKm |-> Null,
     center |-> NilPoint, useCurrentLocation |-> Null]

\* The default of userRadiusKm, line 322
DefaultUserRadiusKm == 10

\* The point the distance is measured to: the center when the volunteer does
\* not use the current location and has a center, else the live location
EffectivePoint(uwp) ==
    IF /\ uwp.useCurrentLocation # Null
       /\ ~Value(uwp.useCurrentLocation)
       /\ uwp.center # NilPoint
    THEN uwp.center
    ELSE uwp.location

\* userRadiusKm
UserRadiusKm(uwp) ==
    IF uwp.notificationRadiusKm # Null THEN Value(uwp.notificationRadiusKm)
    ELSE DefaultUserRadiusKm

\* The WHERE clause of the query over users LEFT JOIN user_preferences
Selected(uwp, bbox) ==
    /\ uwp.isAvailable
    /\ uwp.isActive
    /\ (uwp.pushEnabled = Null \/ Value(uwp.pushEnabled))
    /\ uwp.location # NilPoint
    /\ Between(bbox, uwp.location)

\* The case type check of the loop: a row is dropped when it has case types
\* and the type asked for is not one of them
TypeWanted_NonEmpty(uwp, caseType) ==
    (caseType # "" /\ uwp.caseTypes # Null) => Value(uwp.caseTypes) # {}

TypeWanted(uwp, caseType) ==
    (caseType # "" /\ uwp.caseTypes # Null) => caseType \in Value(uwp.caseTypes)

\* The radius check of the loop
WithinUserRadius(uwp, distance) == ~(distance > UserRadiusKm(uwp))

\* volunteers: the rows the loop appends
Matches(users, lat, lng, radiusKm, caseType) ==
    LET bbox == NewBoundingBox(lat, lng, radiusKm)
        centerPoint == NewGeoPoint(lat, lng)
    IN  {[user |-> uwp.id, DistanceKm |-> DistanceKm(centerPoint, EffectivePoint(uwp))] :
            uwp \in {u \in users :
                       /\ Selected(u, bbox)
                       /\ EffectivePoint(u) # NilPoint
                       /\ WithinUserRadius(u, DistanceKm(centerPoint, EffectivePoint(u)))
                       /\ TypeWanted(u, caseType)}}

\* Mutant: a sort by descending distance
CloserVolunteer_Farther(a, b) == a.DistanceKm > b.DistanceKm

\* The less function of sort.Slice, lines 358-360
CloserVolunteer(a, b) == a.DistanceKm < b.DistanceKm

\* userRepository.FindAvailableVolunteers: every result it can return
FindAvailableVolunteers(users, lat, lng, radiusKm, caseType, limit) ==
    LET volunteers == Matches(users, lat, lng, radiusKm, caseType)
        less == {p \in volunteers \X volunteers : CloserVolunteer(p[1], p[2])}
    IN  {ApplyLimit(sorted, limit) : sorted \in SortSlice(volunteers, less)}

\* --------------------------------------------------------------- GetNearby
UrgencyLow == "low"
UrgencyMedium == "medium"
UrgencyHigh == "high"
UrgencyCritical == "critical"

\* urgencyOrder[urgency]: a map read gives 0 for a key it does not have
urgencyOrder(urgency) ==
    CASE urgency = UrgencyCritical -> 1
      [] urgency = UrgencyHigh -> 2
      [] urgency = UrgencyMedium -> 3
      [] urgency = UrgencyLow -> 4
      [] OTHER -> 0

\* The less function of the sort: urgency first, then distance
LessNearby_DistanceFirst(a, b) ==
    IF a.DistanceKm # b.DistanceKm
    THEN a.DistanceKm < b.DistanceKm
    ELSE urgencyOrder(a.Urgency) < urgencyOrder(b.Urgency)

LessNearby(a, b) ==
    IF urgencyOrder(a.Urgency) # urgencyOrder(b.Urgency)
    THEN urgencyOrder(a.Urgency) < urgencyOrder(b.Urgency)
    ELSE a.DistanceKm < b.DistanceKm

\* nearby: the rows of the query that are within the radius, each with its
\* distance
Nearby(rows, lat, lng, radiusKm, types) ==
    LET bbox == NewBoundingBox(lat, lng, radiusKm)
        centerPoint == NewGeoPoint(lat, lng)
    IN  {[ID |-> c.id, CaseType |-> c.caseType, Urgency |-> c.urgency, Status |-> c.status,
          DistanceKm |-> DistanceKm(centerPoint, c.location)] :
            c \in {r \in rows :
                     /\ r.status \in {CaseStatusPending, CaseStatusAccepted, CaseStatusInProgress}
                     /\ Between(bbox, r.location)
                     /\ (types # {} => r.caseType \in types)
                     /\ DistanceKm(centerPoint, r.location) <= radiusKm}}

\* caseRepository.GetNearby: every result it can return
RepoGetNearby(rows, lat, lng, radiusKm, types, limit) ==
    LET nearby == Nearby(rows, lat, lng, radiusKm, types)
        less == {p \in nearby \X nearby : LessNearby(p[1], p[2])}
    IN  {ApplyLimit(sorted, limit) : sorted \in SortSlice(nearby, less)}

\* The defaults of caseService.GetNearby, lines 162 and 166
DefaultRadiusKm == 10
DefaultLimit == 20

RadiusOf(request) == IF request.RadiusKm <= 0 THEN DefaultRadiusKm ELSE request.RadiusKm
LimitOf(request) == IF request.Limit <= 0 THEN DefaultLimit ELSE request.Limit

\* caseService.GetNearby
GetNearby(rows, request) ==
    RepoGetNearby(rows, request.Latitude, request.Longitude, RadiusOf(request),
                  request.Types, LimitOf(request))

\* -------------------------------------------------------------- queries
\* The points a query or a distance is asked about
GeoLatitudes == {-60, 0, 20, 60}
GeoLongitudes == {-170, 0, 20, 170}
GeoPoints == {NewGeoPoint(lat, lng) : lat \in GeoLatitudes, lng \in GeoLongitudes}

\* A call of g.DistanceKm(other) that has not run yet
DistanceKmCalls ==
    {[op |-> "DistanceKm", g |-> g, other |-> other, returned |-> FALSE, result |-> 0] :
        g \in GeoPoints \cup {NilPoint}, other \in GeoPoints \cup {NilPoint}}

\* g.DistanceKm(other) runs
DistanceKmCall ==
    /\ call.op = "DistanceKm"
    /\ ~call.returned
    /\ call' = [call EXCEPT !.returned = TRUE, !.result = DistanceKm(call.g, call.other)]
    /\ UNCHANGED <<db, req, response, tasks, opsStarted, totalCasesReported, faults, followed>>

\* Where a case, a volunteer or a caller of the nearby query is
QueryPoints == {NewGeoPoint(0, 0), NewGeoPoint(0, 20), NewGeoPoint(20, 20)}

\* The radii a volunteer or a caller sets: the points are whole degrees apart,
\* so a radius that reaches from one to the next is thousands of kilometres
QueryRadii == {10, 2500}

\* The user_preferences rows a volunteer can have
Preferences ==
    {NoPreferences} \cup
    {[pushEnabled |-> Some(push), caseTypes |-> Some(types),
      notificationRadiusKm |-> Some(radius), center |-> center,
      useCurrentLocation |-> Some(current)] :
        push \in BOOLEAN, types \in {{CaseTypeFlood}, {CaseTypeAnimal, CaseTypeAccident}},
        radius \in QueryRadii, center \in {NilPoint, NewGeoPoint(20, 20)},
        current \in BOOLEAN}

\* A row of users LEFT JOIN user_preferences
UserWithPrefs(id, isAvailable, isActive, location, prefs) ==
    [id |-> id, isAvailable |-> isAvailable, isActive |-> isActive, location |-> location,
     pushEnabled |-> prefs.pushEnabled, caseTypes |-> prefs.caseTypes,
     notificationRadiusKm |-> prefs.notificationRadiusKm, center |-> prefs.center,
     useCurrentLocation |-> prefs.useCurrentLocation]

\* The users table: u1 is any volunteer, u2 one of two that are available
UserTables ==
    {{UserWithPrefs("u1", isAvailable, isActive, location, prefs), other} :
        isAvailable \in BOOLEAN, isActive \in BOOLEAN,
        location \in {NilPoint, NewGeoPoint(0, 0), NewGeoPoint(0, 20)},
        prefs \in Preferences,
        other \in {UserWithPrefs("u2", TRUE, TRUE, NewGeoPoint(0, 0), NoPreferences),
                   UserWithPrefs("u2", TRUE, TRUE, NewGeoPoint(0, 20),
                                 [pushEnabled |-> Some(TRUE), caseTypes |-> Some({CaseTypeFlood}),
                                  notificationRadiusKm |-> Some(2500), center |-> NilPoint,
                                  useCurrentLocation |-> Some(TRUE)])}}

\* A call of FindAvailableVolunteers that has not run yet; notifyNearbyVolunteers
\* always asks for the type of a case
FindAvailableVolunteersCalls ==
    {[op |-> "FindAvailableVolunteers", users |-> users, lat |-> point.latitude,
      lng |-> point.longitude, radiusKm |-> radiusKm, caseType |-> caseType, limit |-> limit,
      returned |-> FALSE, result |-> <<>>] :
        users \in UserTables, point \in QueryPoints, radiusKm \in {10, 3500},
        caseType \in {CaseTypeFlood, CaseTypeAnimal}, limit \in {1, 100}}

\* FindAvailableVolunteers runs
FindAvailableVolunteersCall ==
    /\ call.op = "FindAvailableVolunteers"
    /\ ~call.returned
    /\ \E result \in FindAvailableVolunteers(call.users, call.lat, call.lng, call.radiusKm,
                                              call.caseType, call.limit) :
          call' = [call EXCEPT !.returned = TRUE, !.result = result]
    /\ UNCHANGED <<db, req, response, tasks, opsStarted, totalCasesReported, faults, followed>>

\* A row of the cases table
CaseRow(id, caseType, status, urgency, location) ==
    [id |-> id, caseType |-> caseType, status |-> status, urgency |-> urgency,
     location |-> location]

\* The cases table: n1 is any case, n2 and n3 are fewer
CaseTables ==
    {{CaseRow("n1", CaseTypeFlood, status1, urgency1, location1),
      CaseRow("n2", CaseTypeAnimal, status2, urgency2, location2),
      CaseRow("n3", CaseTypeFlood, CaseStatusPending, urgency3, NewGeoPoint(0, 20))} :
        status1 \in {CaseStatusPending, CaseStatusInProgress, CaseStatusResolved,
                      CaseStatusCancelled},
        urgency1 \in {UrgencyCritical, UrgencyMedium, UrgencyLow},
        location1 \in QueryPoints,
        status2 \in {CaseStatusAccepted, CaseStatusExpired},
        urgency2 \in {UrgencyCritical, UrgencyLow},
        location2 \in {NewGeoPoint(0, 0), NewGeoPoint(0, 20)},
        urgency3 \in {UrgencyHigh, UrgencyLow}}

\* request.GetNearbyCasesRequest: no radius and no limit are 0
GetNearbyCasesRequests ==
    {[Latitude |-> point.latitude, Longitude |-> point.longitude, RadiusKm |-> radiusKm,
      Types |-> types, Limit |-> limit] :
        point \in {NewGeoPoint(0, 0), NewGeoPoint(0, 20)}, radiusKm \in {0, 2500, 3500},
        types \in {{}, {CaseTypeFlood}}, limit \in {0, 1, 2}}

\* A call of caseService.GetNearby that has not run yet
GetNearbyCalls ==
    {[op |-> "GetNearby", rows |-> rows, request |-> request, returned |-> FALSE,
      result |-> <<>>] :
        rows \in CaseTables, request \in GetNearbyCasesRequests}

\* caseService.GetNearby runs
GetNearbyCall ==
    /\ call.op = "GetNearby"
    /\ ~call.returned
    /\ \E result \in GetNearby(call.rows, call.request) :
          call' = [call EXCEPT !.returned = TRUE, !.result = result]
    /\ UNCHANGED <<db, req, response, tasks, opsStarted, totalCasesReported, faults, followed>>

\* ---------------------------------------------------------- specification
\* A request arrives at worker w; its volunteer is one of vs.
Request(w, vs) ==
    \/ \E id \in CaseIds, r \in Reporters \cup {Nil} :
           Create(w, id, r, CaseTypeFlood, TRUE, Nil)
    \/ \E id \in CaseIds, u \in vs : Accept(w, id, u)
    \/ \E id \in CaseIds, u \in vs : Withdraw(w, id, u)
    \/ \E id \in CaseIds, u \in vs, s \in VolunteerStatusInputs :
           UpdateVolunteerStatus(w, id, u, s)
    \/ \E id \in CaseIds, u \in Requesters, s \in CaseStatusInputs : Update(w, id, u, s)
    \/ \E id \in CaseIds, u \in Requesters : Delete(w, id, u)

\* The next repository call of the handler worker w runs
Step(w) ==
    \/ AcceptGetVolunteer(w)
    \/ AcceptAddVolunteer(w)
    \/ AcceptReactivateVolunteer(w)
    \/ AcceptCreateUpdate(w)
    \/ WithdrawRemoveVolunteer(w)
    \/ WithdrawCreateUpdate(w)
    \/ UpdateVolunteerStatusWrite(w)
    \/ UpdateVolunteerStatusCreateUpdate(w)
    \/ UpdateCreateUpdate(w)
    \/ UpdateSave(w)
    \/ DeleteWrite(w)

\* The next repository call of a checkCaseCompletion goroutine
TaskStep(t) ==
    \/ checkCaseCompletion(t)
    \/ checkCaseCompletionResolve(t)
    \/ checkCaseCompletionCredit(t)

\* Requests of two volunteers and the reporter, handled in parallel.
Next ==
    \/ opsStarted < MaxOps /\ \E w \in Workers : Request(w, Volunteers)
    \/ \E w \in Workers : Step(w)
    \/ \E t \in BagToSet(tasks) : TaskStep(t)

Spec == Init /\ [][Next]_vars

\* Requests of three volunteers and the reporter, handled one at a time; the
\* goroutines a handler starts still run beside the next requests.
SerialWorkers == {"w1"}

SerialNext ==
    \/ opsStarted < MaxSerialOps /\ \E w \in SerialWorkers : Request(w, SerialVolunteers)
    \/ \E w \in SerialWorkers : Step(w)
    \/ \E t \in BagToSet(tasks) : TaskStep(t)

SpecSerial == Init /\ [][SerialNext]_vars

\* Requests of two volunteers and the reporter, handled one at a time, where
\* a handler that has started runs to its return and every goroutine that was
\* started gets to run.
FairNext ==
    \/ opsStarted < MaxFairOps /\ \E w \in SerialWorkers : Request(w, Volunteers)
    \/ \E w \in SerialWorkers : Step(w)
    \/ \E t \in BagToSet(tasks) : TaskStep(t)

\* The next call of a goroutine of Create or Accept
EffectStep(t) ==
    \/ incrementCasesReported(t)
    \/ notifyNearbyVolunteers(t)
    \/ notifyNearbyVolunteersSend(t)
    \/ notifyReporterOfAcceptance(t)

\* A Create of any case type whose transaction may fail at any statement
FaultyCreate(w) ==
    \E id \in CaseIds, r \in Reporters \cup {Nil}, ct \in CaseTypes,
       hasFields \in BOOLEAN, failure \in CreateFailures :
        Create(w, id, r, ct, hasFields, failure)

\* The requests whose goroutines can fail: Create, Accept and
\* UpdateVolunteerStatus, by one volunteer
FaultyVolunteers == {"u1"}

FaultyRequest(w) ==
    \/ FaultyCreate(w)
    \/ \E id \in CaseIds, u \in FaultyVolunteers : Accept(w, id, u)
    \/ \E id \in CaseIds, u \in FaultyVolunteers,
          s \in {VolunteerStatusCompleted, VolunteerStatusWithdrawn} :
           UpdateVolunteerStatus(w, id, u, s)

FaultyStep(w) ==
    \/ AcceptGetVolunteer(w)
    \/ AcceptAddVolunteer(w)
    \/ AcceptReactivateVolunteer(w)
    \/ AcceptCreateUpdate(w)
    \/ UpdateVolunteerStatusWrite(w)
    \/ UpdateVolunteerStatusCreateUpdate(w)

\* Requests handled one at a time, with every goroutine followed and up to
\* MaxFaults failing storage or push calls.
FaultyNext ==
    \/ opsStarted < MaxFaultyOps /\ \E w \in SerialWorkers : FaultyRequest(w)
    \/ \E w \in SerialWorkers : FaultyStep(w)
    \/ \E t \in BagToSet(tasks) : TaskStep(t)
    \/ \E t \in BagToSet(tasks) : EffectStep(t)

SpecFaulty == Start(MaxFaults, TRUE) /\ [][FaultyNext]_vars

\* ------------------------------------------------ fcmService.SendToTokens
\* batchSize := 500
batchSize == 500

\* The lengths of the token list: none, one batch, and up to four batches
TokenCounts == {0, 1, 499, 500, 501, 999, 1000, 1001, 1500, 1501}

\* What SendEachForMulticast does with a batch: every message sent, some
\* messages failed (FailureCount > 0), or the call returned an error
BatchOutcomes == {"sent", "partial", "error"}

\* lines 169-172: the end of the batch that starts at i
BatchEnd(i, n) == IF i + batchSize > n THEN n ELSE i + batchSize

\* Mutant: a loop that gives up at the first batch whose send fails
NextBatch_StopAtError(i, n, outcome) == IF outcome = "error" THEN n ELSE i + batchSize

\* i += batchSize, reached by the continue of line 202 as by the end of the
\* loop body
NextBatch(i, n, outcome) == i + batchSize

\* A call of SendToTokens that has not run yet; tokens[k] is token k
SendToTokensCalls ==
    {[op |-> "SendToTokens", enabled |-> enabled, tokens |-> n, i |-> 0,
      batches |-> <<>>, returned |-> FALSE, result |-> Nil] :
        enabled \in BOOLEAN, n \in TokenCounts}

\* lines 158-164: the early returns of a disabled service and of an empty list
SendToTokensCheck(enabled, n) ==
    IF ~enabled THEN "disabled"
    ELSE IF n = 0 THEN "no tokens provided"
    ELSE Nil

\* One turn of the loop: tokens[i:end] go out as one multicast message
SendToTokensBatch ==
    /\ call.op = "SendToTokens"
    /\ ~call.returned
    /\ SendToTokensCheck(call.enabled, call.tokens) = Nil
    /\ call.i < call.tokens
    /\ \E outcome \in BatchOutcomes :
          call' = [call EXCEPT
                     !.batches = Append(@, [from |-> call.i,
                                            to |-> BatchEnd(call.i, call.tokens),
                                            outcome |-> outcome]),
                     !.i = NextBatch(call.i, call.tokens, outcome)]
    /\ UNCHANGED <<db, req, response, tasks, opsStarted, totalCasesReported, faults, followed>>

\* SendToTokens returns: nil from a disabled service and after the loop, the
\* error for an empty list
SendToTokensReturn ==
    /\ call.op = "SendToTokens"
    /\ ~call.returned
    /\ LET err == SendToTokensCheck(call.enabled, call.tokens)
       IN  /\ err = Nil => call.i >= call.tokens
           /\ call' = [call EXCEPT !.returned = TRUE,
                                   !.result = IF err = "no tokens provided" THEN err ELSE Nil]
    /\ UNCHANGED <<db, req, response, tasks, opsStarted, totalCasesReported, faults, followed>>

\* ------------------------------------------------------------ RateLimiter
\* The keys of the clients, and the limits and windows (in clock ticks) a
\* limiter is made with
LimiterKeys == {"k1", "k2"}
Limits == {1, 2, 3}
Windows == {1, 2}

\* NewRateLimiter: an empty map; admitted[key] is the record of the instants
\* at which Allow(key) returned true, allowed the result of the last Allow
NewRateLimiter(limit, window) ==
    [op |-> "RateLimiter", limit |-> limit, window |-> window, now |-> 0,
     requests |-> [k \in LimiterKeys |-> Null],
     admitted |-> [k \in LimiterKeys |-> <<>>],
     key |-> Nil, allowed |-> Null]

\* now.Sub(info.lastSeen) > rl.window
Expired(now, info, window) == now - info.lastSeen > window

\* Mutant: a limit check that lets one more request through
AtLimit_Above(info, limit) == info.count > limit

\* info.count >= rl.limit
AtLimit(info, limit) == info.count >= limit

\* RateLimiter.Allow: the entry of the key after the call, and the result
AllowEntry(entry, now, limit, window) ==
    IF entry = Null THEN <<Some([count |-> 1, lastSeen |-> now]), TRUE>>
    ELSE IF Expired(now, Value(entry), window)
         THEN <<Some([count |-> 1, lastSeen |-> now]), TRUE>>
    ELSE IF AtLimit(Value(entry), limit) THEN <<entry, FALSE>>
    ELSE <<Some([count |-> Value(entry).count + 1, lastSeen |-> now]), TRUE>>

\* RateLimiter.Allow(key), under rl.mu
Allow(key) ==
    /\ call.op = "RateLimiter"
    /\ opsStarted < MaxAllows
    /\ opsStarted' = opsStarted + 1
    /\ LET after == AllowEntry(call.requests[key], call.now, call.limit, call.window)
       IN  call' = [call EXCEPT
                      !.requests[key] = after[1],
                      !.admitted[key] = IF after[2] THEN Append(@, call.now) ELSE @,
                      !.key = key,
                      !.allowed = Some(after[2])]
    /\ UNCHANGED <<db, req, response, tasks, totalCasesReported, faults, followed>>

\* The map after a sweep of cleanup
Swept(requests, now, window) ==
    [k \in DOMAIN requests |->
        IF requests[k] # Null /\ Expired(now, Value(requests[k]), window)
        THEN Null ELSE requests[k]]

\* One sweep of RateLimiter.cleanup, under rl.mu; the goroutine gets the lock
\* at whatever instant the scheduler gives it
cleanup ==
    /\ call.op = "RateLimiter"
    /\ call' = [call EXCEPT !.requests = Swept(@, call.now, call.window)]
    /\ UNCHANGED <<db, req, response, tasks, opsStarted, totalCasesReported, faults,
                   followed>>

\* time.Now() moves on by one tick
Tick ==
    /\ call.op = "RateLimiter"
    /\ call.now < MaxTime
    /\ call' = [call EXCEPT !.now = @ + 1]
    /\ UNCHANGED <<db, req, response, tasks, opsStarted, totalCasesReported, faults,
                   followed>>

LimiterInit ==
    \E limit \in Limits, window \in Windows :
        StartWith(0, FALSE, NewRateLimiter(limit, window))

LimiterNext ==
    \/ \E key \in LimiterKeys : Allow(key)
    \/ cleanup
    \/ Tick

SpecLimiter == LimiterInit /\ [][LimiterNext]_vars

\* A query or the distance function is called once on inputs drawn at the start
QueryInit ==
    \E c \in DistanceKmCalls \cup FindAvailableVolunteersCalls \cup GetNearbyCalls
                \cup SendToTokensCalls :
        StartWith(0, FALSE, c)

QueryNext ==
    \/ DistanceKmCall
    \/ FindAvailableVolunteersCall
    \/ GetNearbyCall
    \/ SendToTokensBatch
    \/ SendToTokensReturn

SpecQuery == QueryInit /\ [][QueryNext]_vars

\* Accept and Withdraw of two volunteers handled in parallel, with up to
\* MaxRacingFaults failing statements in their transactions
RacingRequest(w) ==
    \/ \E id \in CaseIds, r \in Reporters : Create(w, id, r, CaseTypeFlood, TRUE, Nil)
    \/ \E id \in CaseIds, u \in Volunteers : Accept(w, id, u)
    \/ \E id \in CaseIds, u \in Volunteers : Withdraw(w, id, u)

RacingStep(w) ==
    \/ AcceptGetVolunteer(w)
    \/ AcceptAddVolunteer(w)
    \/ AcceptReactivateVolunteer(w)
    \/ AcceptCreateUpdate(w)
    \/ WithdrawRemoveVolunteer(w)
    \/ WithdrawCreateUpdate(w)

RacingNext ==
    \/ opsStarted < MaxRacingOps /\ \E w \in Workers : RacingRequest(w)
    \/ \E w \in Workers : RacingStep(w)

SpecRacing == Start(MaxRacingFaults, FALSE) /\ [][RacingNext]_vars

\* Requests handled one at a time: the volunteers accept one after the
\* other, and the first of them withdraws and reports a status in between.
CapacityRequest(w) ==
    \/ \E id \in CaseIds, r \in Reporters : Create(w, id, r, CaseTypeFlood, TRUE, Nil)
    \/ \E id \in CaseIds, n \in DOMAIN CapacityVolunteers :
          /\ GetVolunteer(caseVolunteers, id, CapacityVolunteers[n]) = Nil
          /\ n > 1 => GetVolunteer(caseVolunteers, id, CapacityVolunteers[n - 1]) # Nil
          /\ Accept(w, id, CapacityVolunteers[n])
    \/ \E id \in CaseIds : Withdraw(w, id, CapacityVolunteers[1])
    \/ \E id \in CaseIds :
          UpdateVolunteerStatus(w, id, CapacityVolunteers[1], VolunteerStatusAccepted)

CapacityStep(w) ==
    \/ AcceptGetVolunteer(w)
    \/ AcceptAddVolunteer(w)
    \/ AcceptCreateUpdate(w)
    \/ WithdrawRemoveVolunteer(w)
    \/ WithdrawCreateUpdate(w)
    \/ UpdateVolunteerStatusWrite(w)
    \/ UpdateVolunteerStatusCreateUpdate(w)

CapacityNext ==
    \/ opsStarted < MaxCapacityOps /\ \E w \in SerialWorkers : CapacityRequest(w)
    \/ \E w \in SerialWorkers : CapacityStep(w)

SpecCapacity == Init /\ [][CapacityNext]_vars

\* Requests of two volunteers who accept, complete and withdraw, handled one
\* at a time, where a handler that has started runs to its return and every
\* goroutine that was started gets to run.
LeavingRequest(w) ==
    \/ \E id \in CaseIds, r \in Reporters : Create(w, id, r, CaseTypeFlood, TRUE, Nil)
    \/ \E id \in CaseIds, u \in Volunteers : Accept(w, id, u)
    \/ \E id \in CaseIds, u \in Volunteers : Withdraw(w, id, u)
    \/ \E id \in CaseIds, u \in Volunteers :
          UpdateVolunteerStatus(w, id, u, VolunteerStatusCompleted)

LeavingStep(w) ==
    \/ AcceptGetVolunteer(w)
    \/ AcceptAddVolunteer(w)
    \/ AcceptReactivateVolunteer(w)
    \/ AcceptCreateUpdate(w)
    \/ WithdrawRemoveVolunteer(w)
    \/ WithdrawCreateUpdate(w)
    \/ UpdateVolunteerStatusWrite(w)
    \/ UpdateVolunteerStatusCreateUpdate(w)

LeavingNext ==
    \/ opsStarted < MaxLeavingOps /\ \E w \in SerialWorkers : LeavingRequest(w)
    \/ \E w \in SerialWorkers : LeavingStep(w)
    \/ \E t \in BagToSet(tasks) : TaskStep(t)

SpecLeaving ==
    /\ Init
    /\ [][LeavingNext]_vars
    /\ \A w \in SerialWorkers : WF_vars(LeavingStep(w))
    /\ WF_vars(\E t \in BagToSet(tasks) : TaskStep(t))

\* The reporter creates, updates and deletes a case, one request at a time,
\* with up to MaxUpdatingFaults failing storage calls in Update.
UpdatingRequest(w) ==
    \/ \E id \in CaseIds, r \in Reporters : Create(w, id, r, CaseTypeFlood, TRUE, Nil)
    \/ \E id \in CaseIds, u \in Requesters, s \in CaseStatusInputs : Update(w, id, u, s)
    \/ \E id \in CaseIds, u \in Requesters : Delete(w, id, u)

UpdatingStep(w) ==
    \/ UpdateCreateUpdate(w)
    \/ UpdateSave(w)
    \/ DeleteWrite(w)

UpdatingNext ==
    \/ opsStarted < MaxUpdatingOps /\ \E w \in SerialWorkers : UpdatingRequest(w)
    \/ \E w \in SerialWorkers : UpdatingStep(w)

SpecUpdating == Start(MaxUpdatingFaults, FALSE) /\ [][UpdatingNext]_vars

SpecFair ==
    /\ Init
    /\ [][FairNext]_vars
    /\ \A w \in SerialWorkers : WF_vars(Step(w))
    /\ WF_vars(\E t \in BagToSet(tasks) : TaskStep(t))

\* ------------------------------------------------------------ properties
\* Rows of a case whose status is not withdrawn
ActiveRows(cvs, caseID) ==
    {v \in GetVolunteersByCaseID(cvs, caseID) : v.status # VolunteerStatusWithdrawn}

\* C1: in every reachable state each case's volunteerCount equals the number
\* of its volunteer rows whose status is not withdrawn.
C1_VolunteerCountIsActiveRows ==
    \A id \in CaseIds :
        Exists(cases, id) =>
            cases[id].volunteerCount = Cardinality(ActiveRows(caseVolunteers, id))

\* The storage step of a successful Accept by worker w
AcceptCommits(w) ==
    /\ req[w].op = "Accept"
    /\ req[w].pc \in {"addVolunteer", "reactivateVolunteer"}
    /\ req'[w].pc = "createUpdate"

\* C2: a successful Accept on a pending case without volunteer rows makes the
\* case accepted and stamps acceptedAt; on an accepted or in_progress case it
\* leaves the case status as it was.
C2_AcceptFlipsPendingCase ==
    [][\A w \in Workers :
         AcceptCommits(w) =>
            LET id == req[w].caseID
            IN  /\ (/\ cases[id].status = CaseStatusPending
                    /\ GetVolunteersByCaseID(caseVolunteers, id) = {})
                      => /\ cases'[id].status = CaseStatusAccepted
                         /\ cases'[id].acceptedAt
                /\ cases[id].status \in {CaseStatusAccepted, CaseStatusInProgress}
                      => cases'[id].status = cases[id].status]_vars

C2_Witness ==
    /\ response = Response("Accept", "ok")
    /\ \E id \in CaseIds :
          /\ cases[id].status = CaseStatusAccepted
          /\ cases[id].acceptedAt
          /\ Cardinality(GetVolunteersByCaseID(caseVolunteers, id)) = 1

\* C3: Accept on an active case whose volunteerCount has reached maxVolunteers
\* returns MAX_VOLUNTEERS and changes no case, volunteer row, counter or
\* timeline.
C3_AcceptAtCapacityFails ==
    [][\A w \in Workers, id \in CaseIds, u \in Users :
         (/\ Accept(w, id, u)
          /\ IsActive(cases[id].status)
          /\ cases[id].volunteerCount >= cases[id].maxVolunteers)
            => /\ response' = Response("Accept", "MAX_VOLUNTEERS")
               /\ Idle(w)'
               /\ UNCHANGED db]_vars

C3_Witness ==
    /\ response = Response("Accept", "MAX_VOLUNTEERS")
    /\ \E id \in CaseIds :
          /\ IsActive(cases[id].status)
          /\ cases[id].volunteerCount >= cases[id].maxVolunteers

\* C4: there is never more than one volunteer row per (case, volunteer), no
\* step changes the identity of a row, and the Accept that follows a Withdraw
\* turns the withdrawn row itself back to accepted without adding a row.
UniquePerCaseAndVolunteer(cvs) ==
    \A id \in CaseIds, u \in Users : Cardinality(VolunteerRows(cvs, id, u)) <= 1

Identity(cvs) == {<<v.id, v.caseID, v.volunteerID>> : v \in cvs}

C4_OneRowPerCaseAndVolunteer ==
    [][/\ UniquePerCaseAndVolunteer(caseVolunteers')
       /\ Identity(caseVolunteers) \subseteq Identity(caseVolunteers')
       /\ \A w \in Workers :
            (AcceptCommits(w) /\ req[w].pc = "reactivateVolunteer")
               => /\ Identity(caseVolunteers') = Identity(caseVolunteers)
                  /\ GetVolunteer(caseVolunteers', req[w].caseID, req[w].userID)
                        = VolunteerStatusAccepted]_vars

C4_Witness ==
    \E id \in CaseIds, u \in Volunteers :
        /\ caseUpdates[id] =
              <<CaseUpdate("system", Nil, Nil, CaseStatusPending),
                CaseUpdate("volunteer_joined", u, Nil, Nil),
                CaseUpdate("volunteer_withdrawn", u, Nil, Nil),
                CaseUpdate("volunteer_joined", u, Nil, Nil)>>
        /\ Cardinality(caseVolunteers) = 1
        /\ GetVolunteer(caseVolunteers, id, u) = VolunteerStatusAccepted

\* A volunteer's status has just been written as completed, and the case is
\* active with a volunteer row and every row completed or withdrawn
CompletionLeavesAllDone(id) ==
    /\ \E w \in Workers :
          /\ req[w].op = "UpdateVolunteerStatus"
          /\ req[w].pc = "createUpdate"
          /\ req[w].caseID = id
          /\ req[w].status = VolunteerStatusCompleted
    /\ IsActive(cases[id].status)
    /\ AllDone(GetVolunteersByCaseID(caseVolunteers, id))

\* C5, as claimed: once a write of completed leaves an active case with a
\* volunteer row and all rows completed or withdrawn, the case eventually is
\* resolved.
C5_CompletionLeadsToResolved ==
    \A id \in CaseIds :
        CompletionLeavesAllDone(id) ~> (cases[id].status = CaseStatusResolved)

\* C5, amended: once a write of completed leaves an active case with a
\* volunteer row and all rows completed or withdrawn, eventually the case is
\* resolved or one of its rows is in a status other than completed and
\* withdrawn.
C5_CompletionLeadsToResolvedOrActiveRow ==
    \A id \in CaseIds :
        CompletionLeavesAllDone(id) ~>
            \/ cases[id].status = CaseStatusResolved
            \/ ~AllDone(GetVolunteersByCaseID(caseVolunteers, id))

C5_Witness ==
    \E id \in CaseIds, u \in Volunteers :
        /\ cases[id].status = CaseStatusResolved
        /\ cases[id].resolvedAt
        /\ GetVolunteer(caseVolunteers, id, u) = VolunteerStatusCompleted
        /\ totalCasesResolved[u] = 1
        /\ tasks = EmptyBag

\* C6: completion aggregation commits resolved only when, at that moment, the
\* case has a volunteer row and every row is completed or withdrawn.
C6_ResolveOnlyWhenAllDone ==
    [][\A t \in BagToSet(tasks) :
         checkCaseCompletionResolve(t) =>
            AllDone(GetVolunteersByCaseID(caseVolunteers, t.caseID))]_vars

\* The volunteer has a row on the case in a status other than withdrawn
HasActiveRecord(cvs, caseID, volunteerID) ==
    GetVolunteer(cvs, caseID, volunteerID) \notin {Nil, VolunteerStatusWithdrawn}

\* Accept's record check rejects a volunteer whose row is not withdrawn
AcceptRejectsActiveRecord(w) ==
    (/\ AcceptGetVolunteer(w)
     /\ HasActiveRecord(caseVolunteers, req[w].caseID, req[w].userID))
        => /\ response' = Response("Accept", "ALREADY_ACCEPTED")
           /\ Idle(w)'
           /\ UNCHANGED db

\* C7, as claimed: Accept on an active case by a volunteer whose row is not
\* withdrawn gets to the record check, fails there with ALREADY_ACCEPTED
\* and changes nothing.
C7_ActiveRecordAlwaysAlreadyAccepted ==
    [][\A w \in Workers :
         /\ \A id \in CaseIds, u \in Users :
              (/\ Accept(w, id, u)
               /\ IsActive(cases[id].status)
               /\ HasActiveRecord(caseVolunteers, id, u))
                 => /\ req'[w].pc = "getVolunteer"
                    /\ UNCHANGED db
         /\ AcceptRejectsActiveRecord(w)]_vars

\* C7, amended: the same for a case whose volunteerCount is below
\* maxVolunteers.
C7_ActiveRecordBelowCapacityAlreadyAccepted ==
    [][\A w \in Workers :
         /\ \A id \in CaseIds, u \in Users :
              (/\ Accept(w, id, u)
               /\ IsActive(cases[id].status)
               /\ cases[id].volunteerCount < cases[id].maxVolunteers
               /\ HasActiveRecord(caseVolunteers, id, u))
                 => /\ req'[w].pc = "getVolunteer"
                    /\ UNCHANGED db
         /\ AcceptRejectsActiveRecord(w)]_vars

C7_Witness ==
    /\ response = Response("Accept", "ALREADY_ACCEPTED")
    /\ \E id \in CaseIds, u \in Users :
          GetVolunteer(caseVolunteers, id, u) = VolunteerStatusCompleted

\* C8: Withdraw by a volunteer without a row, or with a withdrawn row, fails
\* with NOT_ACCEPTED and changes nothing; otherwise it marks the row
\* withdrawn and takes one off volunteerCount.
C8_WithdrawNeedsActiveRecord ==
    [][\A w \in Workers :
         /\ \A id \in CaseIds, u \in Users :
              Withdraw(w, id, u) =>
                 IF HasActiveRecord(caseVolunteers, id, u)
                 THEN req'[w].pc = "removeVolunteer"
                 ELSE /\ response' = Response("Withdraw", "NOT_ACCEPTED")
                      /\ Idle(w)'
                      /\ UNCHANGED db
         /\ WithdrawRemoveVolunteer(w) =>
              /\ GetVolunteer(caseVolunteers', req[w].caseID, req[w].userID)
                    = VolunteerStatusWithdrawn
              /\ cases'[req[w].caseID].volunteerCount
                    = cases[req[w].caseID].volunteerCount - 1]_vars

\* C9: a volunteer row becomes active (a new row, or a withdrawn row made
\* active again) only on a case that is pending, accepted or in_progress.
C9_ActiveVolunteerOnlyOnActiveCase ==
    [][\A id \in CaseIds, u \in Users :
         (/\ ~HasActiveRecord(caseVolunteers, id, u)
          /\ HasActiveRecord(caseVolunteers', id, u))
            => IsActive(cases[id].status)]_vars

\* C10: a volunteer is credited at most once for each case.
C10_CreditedOncePerCase ==
    \A u \in Users :
        totalCasesResolved[u]
            <= Cardinality({id \in CaseIds : VolunteerRows(caseVolunteers, id, u) # {}})

\* The statuses of the volunteer rows of a case
RowStatuses(cvs, id) ==
    {<<v.volunteerID, v.status>> : v \in GetVolunteersByCaseID(cvs, id)}

\* This step changes the status of the case or of one of its volunteer rows
StatusChanges(id) ==
    \/ cases'[id].status # cases[id].status
    \/ RowStatuses(caseVolunteers', id) # RowStatuses(caseVolunteers, id)

\* The handler that makes this step writes one timeline entry for it: in the
\* same transaction (Create), as its next repository call (Accept, Withdraw,
\* UpdateVolunteerStatus), or as the call before (Update with a status).
WritesOneUpdate(id) ==
    \/ Len(caseUpdates'[id]) = Len(caseUpdates[id]) + 1
    \/ \E w \in Workers :
          /\ req[w].caseID = id
          /\ req[w].pc # "createUpdate"
          /\ req'[w].pc = "createUpdate"
    \/ \E w \in Workers :
          /\ UpdateSave(w)
          /\ req[w].caseID = id
          /\ req[w].status # Nil
          /\ Len(caseUpdates[id]) > 0
          /\ caseUpdates[id][Len(caseUpdates[id])].updateType = "status_change"

\* C11: every step that changes the status of a case or of a volunteer row
\* belongs to an action that appends one CaseUpdate to the case's timeline,
\* and no step removes a timeline entry.
C11_StatusChangeAppendsUpdate ==
    [][\A id \in CaseIds :
         /\ StatusChanges(id) => WritesOneUpdate(id)
         /\ Len(caseUpdates'[id]) >= Len(caseUpdates[id])]_vars

\* Position of a status on pending -> accepted -> in_progress -> resolved
StatusRank(s) ==
    CASE s = CaseStatusPending -> 0
      [] s = CaseStatusAccepted -> 1
      [] s = CaseStatusInProgress -> 2
      [] OTHER -> 3

\* The transitions of the case state machine: forward along the chain, or from
\* an active status to cancelled or expired
MovesForward(old, new) ==
    \/ old = Nil
    \/ old = new
    \/ /\ IsActive(old)
       /\ new \in {CaseStatusAccepted, CaseStatusInProgress, CaseStatusResolved}
       /\ StatusRank(old) < StatusRank(new)
    \/ /\ IsActive(old)
       /\ new \in {CaseStatusCancelled, CaseStatusExpired}

\* C12: a case's status only moves forward along pending, accepted,
\* in_progress, resolved, or from an active status to cancelled or expired; it
\* never moves backward and never leaves resolved, cancelled or expired.
C12_StatusMovesForward ==
    [][\A id \in CaseIds : MovesForward(cases[id].status, cases'[id].status)]_vars

\* C13: Update of an existing case by anyone but its reporter, which is
\* everyone when the case has no reporter, returns Forbidden and changes
\* neither the case nor its timeline.
C13_UpdateByOthersForbidden ==
    [][\A w \in Workers, id \in CaseIds, u \in Requesters, s \in CaseStatusInputs :
         (/\ Update(w, id, u, s)
          /\ Exists(cases, id)
          /\ cases[id].reporterID # u)
            => /\ response' = Response("Update", "FORBIDDEN")
               /\ Idle(w)'
               /\ UNCHANGED db]_vars

C13_Witness ==
    /\ response = Response("Update", "FORBIDDEN")
    /\ \E id \in CaseIds : Exists(cases, id) /\ cases[id].reporterID = Nil

\* C14: Delete by the reporter goes on to set the status cancelled and leaves
\* every other field of the case, its volunteer rows, its volunteerCount and
\* its timeline as they were; Delete by anyone else returns Forbidden and
\* changes nothing.
C14_DeleteOnlyCancels ==
    [][\A w \in Workers :
         /\ \A id \in CaseIds, u \in Requesters :
              (Delete(w, id, u) /\ Exists(cases, id)) =>
                 IF cases[id].reporterID = u
                 THEN req'[w].pc = "delete" /\ UNCHANGED db
                 ELSE /\ response' = Response("Delete", "FORBIDDEN")
                      /\ Idle(w)'
                      /\ UNCHANGED db
         /\ DeleteWrite(w) =>
              /\ cases' = [cases EXCEPT ![req[w].caseID].status = CaseStatusCancelled]
              /\ UNCHANGED <<caseVolunteers, caseUpdates, totalCasesResolved>>]_vars

C14_Witness ==
    /\ response = Response("Delete", "ok")
    /\ \E id \in CaseIds :
          /\ cases[id].status = CaseStatusCancelled
          /\ cases[id].reporterID \in Reporters
          /\ cases[id].volunteerCount > 0
          /\ GetVolunteersByCaseID(caseVolunteers, id) # {}
          /\ Len(caseUpdates[id]) >= 2

\* C20: the insert of a successful Accept by a volunteer without a row on the
\* case adds exactly one row, with status accepted, and adds exactly one to
\* the case's volunteerCount.
C20_AcceptAddsOneRowAndOneCount ==
    [][\A w \in Workers :
         (AcceptAddVolunteer(w) /\ req'[w].pc = "createUpdate") =>
            LET id == req[w].caseID
                added == caseVolunteers' \ caseVolunteers
            IN  /\ caseVolunteers \subseteq caseVolunteers'
                /\ Cardinality(added) = 1
                /\ \A v \in added :
                      /\ v.caseID = id
                      /\ v.volunteerID = req[w].userID
                      /\ v.status = VolunteerStatusAccepted
                /\ cases'[id].volunteerCount = cases[id].volunteerCount + 1]_vars

\* C15: Create either stores the pending case, its detail record and one
\* system update, which is then the whole timeline of the case, and returns
\* ok, or stores nothing and returns the storage error.
C15_CreateIsAtomic ==
    [][\A w \in SerialWorkers, id \in CaseIds, r \in Reporters \cup {Nil},
         ct \in CaseTypes, hasFields \in BOOLEAN, failure \in CreateFailures :
         Create(w, id, r, ct, hasFields, failure) =>
            \/ /\ response' = Response("Create", "ok")
               /\ cases'[id].status = CaseStatusPending
               /\ cases'[id].caseType = ct
               /\ cases'[id].details = Details(ct, hasFields)
               /\ caseUpdates'[id] =
                     <<CaseUpdate("system", Nil, Nil, CaseStatusPending)>>
            \/ /\ response' = Response("Create", "STORAGE_ERROR")
               /\ UNCHANGED db]_vars

C15_Witness ==
    /\ response = Response("Create", "STORAGE_ERROR")
    /\ faults < MaxFaults
    /\ \A id \in CaseIds : ~Exists(cases, id) /\ caseUpdates[id] = <<>>

\* A storage or push call of a goroutine fails in this step
GoroutineFails ==
    /\ faults' < faults
    /\ \E t \in BagToSet(tasks) : TaskStep(t) \/ EffectStep(t)

\* C16: when volunteer matching, a push send or a counter increment fails in
\* a goroutine, the response of Create, Accept or UpdateVolunteerStatus stays
\* as returned, and the cases, volunteer rows and timelines stay as committed;
\* the handler step that starts the goroutines returns ok.
C16_GoroutineFailureIsSwallowed ==
    [][/\ GoroutineFails =>
            UNCHANGED <<cases, caseVolunteers, caseUpdates, req, response>>
       /\ \A w \in SerialWorkers :
            (AcceptCreateUpdate(w) \/ UpdateVolunteerStatusCreateUpdate(w))
               => response'.result = "ok"]_vars

C16_Witness ==
    /\ faults = 0
    /\ response = Response("UpdateVolunteerStatus", "ok")
    /\ tasks = EmptyBag
    /\ \E id \in CaseIds, u \in FaultyVolunteers :
          /\ cases[id].status = CaseStatusResolved
          /\ cases[id].reporterID # Nil
          /\ GetVolunteer(caseVolunteers, id, u) = VolunteerStatusCompleted
          /\ totalCasesResolved[u] = 0
          /\ totalCasesReported[cases[id].reporterID] = 0

\* C19: the distance of a point to itself is 0, and the distance between two
\* points is the same measured from either of them.
C19_DistanceZeroAndSymmetric ==
    (call.op = "DistanceKm" /\ call.returned) =>
        /\ (call.g = call.other => call.result = 0)
        /\ call.result = DistanceKm(call.other, call.g)

\* A distance between two points of different latitudes and longitudes was
\* computed and is not 0
C19_Witness ==
    /\ call.op = "DistanceKm"
    /\ call.returned
    /\ call.g # NilPoint
    /\ call.other # NilPoint
    /\ call.g.latitude # call.other.latitude
    /\ call.g.longitude # call.other.longitude
    /\ call.result > 0

\* The row of the users table a returned volunteer came from
RowOf(users, id) == CHOOSE uwp \in users : uwp.id = id

\* The radius a volunteer set, or the 10 km of a volunteer who set none
OwnRadiusKm(uwp) ==
    IF uwp.notificationRadiusKm = Null THEN 10 ELSE Value(uwp.notificationRadiusKm)

\* The volunteer is no farther from the case than the volunteer's own radius,
\* and has not disabled push
NearAndReachable(uwp, v) ==
    /\ v.DistanceKm = DistanceKm(NewGeoPoint(call.lat, call.lng), EffectivePoint(uwp))
    /\ v.DistanceKm <= OwnRadiusKm(uwp)
    /\ uwp.pushEnabled # Some(FALSE)

\* C17 as stated: every volunteer FindAvailableVolunteers returns is within
\* the volunteer's own notification radius of the case, has the case's type
\* among the case types of their preferences, and has not disabled push.
C17_MatchedHaveTheCaseType ==
    (call.op = "FindAvailableVolunteers" /\ call.returned) =>
        \A i \in 1..Len(call.result) :
            LET uwp == RowOf(call.users, call.result[i].user)
            IN  /\ NearAndReachable(uwp, call.result[i])
                /\ uwp.caseTypes # Null
                /\ call.caseType \in Value(uwp.caseTypes)

\* C17, amended: every volunteer FindAvailableVolunteers returns is within
\* the volunteer's own notification radius of the case, has not disabled
\* push, and either has no case types preference or has the case's type in it.
C17_MatchedDoNotExcludeTheCaseType ==
    (call.op = "FindAvailableVolunteers" /\ call.returned) =>
        \A i \in 1..Len(call.result) :
            LET uwp == RowOf(call.users, call.result[i].user)
            IN  /\ NearAndReachable(uwp, call.result[i])
                /\ (uwp.caseTypes = Null \/ call.caseType \in Value(uwp.caseTypes))

\* The matcher returned two volunteers: one with preferences who is farther
\* than 10 km from the case, and one without preferences
C17_Witness ==
    /\ call.op = "FindAvailableVolunteers"
    /\ call.returned
    /\ Len(call.result) = 2
    /\ \E i, j \in 1..2 :
          /\ RowOf(call.users, call.result[i].user).caseTypes # Null
          /\ call.result[i].DistanceKm > 10
          /\ RowOf(call.users, call.result[j].user).caseTypes = Null

\* The row of the cases table a returned case came from
CaseOf(rows, id) == CHOOSE c \in rows : c.id = id

\* The radius the caller of the nearby query asked for, 10 km when none
AskedRadiusKm(request) == IF request.RadiusKm <= 0 THEN 10 ELSE request.RadiusKm

\* The limit the caller of the nearby query asked for, 20 when none
AskedLimit(request) == IF request.Limit <= 0 THEN 20 ELSE request.Limit

\* critical, high, medium, low
UrgencyPriority(urgency) ==
    CHOOSE n \in 1..4 : <<UrgencyCritical, UrgencyHigh, UrgencyMedium, UrgencyLow>>[n] = urgency

\* a is not ranked after b: more urgent, or as urgent and no farther
RankedNoLater(a, b) ==
    \/ UrgencyPriority(a.Urgency) < UrgencyPriority(b.Urgency)
    \/ /\ UrgencyPriority(a.Urgency) = UrgencyPriority(b.Urgency)
       /\ a.DistanceKm <= b.DistanceKm

\* C18: the nearby query returns only pending, accepted and in_progress cases
\* within the radius asked for, the more urgent first and the nearer first
\* among equally urgent ones; the limit cuts the sorted list, so no case left
\* out ranks before a returned one.
C18_NearbyActiveRankedThenLimited ==
    (call.op = "GetNearby" /\ call.returned) =>
        LET request == call.request
            found == Nearby(call.rows, request.Latitude, request.Longitude,
                            AskedRadiusKm(request), request.Types)
            returned == {call.result[i] : i \in 1..Len(call.result)}
        IN  /\ \A i \in 1..Len(call.result) :
                  LET c == CaseOf(call.rows, call.result[i].ID)
                  IN  /\ c.status \in {"pending", "accepted", "in_progress"}
                      /\ call.result[i].Status = c.status
                      /\ call.result[i].Urgency = c.urgency
                      /\ call.result[i].DistanceKm
                            = DistanceKm(NewGeoPoint(request.Latitude, request.Longitude),
                                         c.location)
                      /\ call.result[i].DistanceKm <= AskedRadiusKm(request)
            /\ \A i, j \in 1..Len(call.result) :
                  i < j => RankedNoLater(call.result[i], call.result[j])
            /\ returned \subseteq found
            /\ Cardinality(returned) = Len(call.result)
            /\ Cardinality(found) > AskedLimit(request)
                  => Len(call.result) = AskedLimit(request)
            /\ Cardinality(found) <= AskedLimit(request) => returned = found
            /\ \A out \in found \ returned : \A kept \in returned : RankedNoLater(kept, out)

\* The nearby query returned the two first of three cases it found, the first
\* more urgent and farther away than the second
C18_Witness ==
    /\ call.op = "GetNearby"
    /\ call.returned
    /\ call.request.Limit = 2
    /\ Len(call.result) = 2
    /\ Cardinality(Nearby(call.rows, call.request.Latitude, call.request.Longitude,
                          AskedRadiusKm(call.request), call.request.Types)) = 3
    /\ UrgencyPriority(call.result[1].Urgency) < UrgencyPriority(call.result[2].Urgency)
    /\ call.result[1].DistanceKm > call.result[2].DistanceKm

\* The storage step of an Accept by worker w that reactivates a record
Reactivates(w) ==
    /\ req[w].op = "Accept"
    /\ req[w].pc = "reactivateVolunteer"
    /\ req'[w].pc = "createUpdate"

\* C21: an Accept that reactivates a withdrawn record leaves that same record
\* accepted with no arrival and no completion time, adds and changes no other
\* record, and adds exactly one to the case's volunteerCount.
C21_ReactivationResetsRecordAndCountsOne ==
    [][\A w \in Workers :
         Reactivates(w) =>
            LET id == req[w].caseID
                u == req[w].userID
            IN  /\ Identity(caseVolunteers') = Identity(caseVolunteers)
                /\ \A v \in caseVolunteers' :
                      IF v.caseID = id /\ v.volunteerID = u
                      THEN /\ v.status = VolunteerStatusAccepted
                           /\ ~v.arrivedAt
                           /\ ~v.completedAt
                      ELSE v \in caseVolunteers
                /\ cases'[id].volunteerCount = cases[id].volunteerCount + 1]_vars

\* A volunteer who had reported a status and then withdrew has accepted
\* again: the record is accepted and its times are cleared
C21_Witness ==
    \E w \in Workers, id \in CaseIds, u \in Users :
        /\ At(w, "Accept", "createUpdate")
        /\ req[w].caseID = id
        /\ req[w].userID = u
        /\ Len(caseUpdates[id]) >= 4
        /\ caseUpdates[id][Len(caseUpdates[id])].updateType = "volunteer_withdrawn"
        /\ \E i \in 1..Len(caseUpdates[id]) :
              /\ caseUpdates[id][i].updateType = "volunteer_update"
              /\ caseUpdates[id][i].userID = u
        /\ \E v \in VolunteerRows(caseVolunteers, id, u) :
              v.status = VolunteerStatusAccepted /\ ~v.arrivedAt /\ ~v.completedAt

\* Worker w runs the transaction of AddVolunteer, ReactivateVolunteer or
\* RemoveVolunteer
VolunteerTransaction(w) ==
    /\ req[w].pc \in {"addVolunteer", "reactivateVolunteer", "removeVolunteer"}
    /\ req'[w] # req[w]

\* The row of (id, u) is there with the given status
HasRow(cvs, id, u, status) ==
    \E v \in VolunteerRows(cvs, id, u) : v.status = status

\* C22: the storage mutations of Accept, of a reactivation and of Withdraw
\* are atomic.  Each such step either takes effect whole (the record is
\* inserted or changed, volunteerCount is adjusted, and a pending case has
\* become accepted), so that no other request ever sees a part of it, or
\* fails, returns the storage error and leaves cases and records as they were.
C22_VolunteerMutationsAreAtomic ==
    [][\A w \in Workers :
         VolunteerTransaction(w) =>
            LET id == req[w].caseID
                u == req[w].userID
                count == cases[id].volunteerCount
            IN  \/ /\ req'[w] = NoRequest
                   /\ response' = Response(req[w].op, "STORAGE_ERROR")
                   /\ cases' = cases
                   /\ caseVolunteers' = caseVolunteers
                \/ /\ req'[w].pc = "createUpdate"
                   /\ req[w].pc = "addVolunteer" =>
                         /\ VolunteerRows(caseVolunteers, id, u) = {}
                         /\ HasRow(caseVolunteers', id, u, VolunteerStatusAccepted)
                         /\ cases'[id].volunteerCount > count
                         /\ cases'[id].status # CaseStatusPending
                   /\ req[w].pc = "reactivateVolunteer" =>
                         /\ HasRow(caseVolunteers', id, u, VolunteerStatusAccepted)
                         /\ cases'[id].volunteerCount = count + 1
                   /\ req[w].pc = "removeVolunteer" =>
                         /\ HasRow(caseVolunteers', id, u, VolunteerStatusWithdrawn)
                         /\ cases'[id].volunteerCount = IF count > 0 THEN count - 1 ELSE 0]_vars

\* A transaction of Accept has failed beside a request of the other worker:
\* the case is still pending without any record
C22_Witness ==
    /\ response = Response("Accept", "STORAGE_ERROR")
    /\ faults < MaxRacingFaults
    /\ \E w \in Workers, id \in CaseIds :
          /\ req[w].op = "Accept"
          /\ req[w].caseID = id
          /\ cases[id].status = CaseStatusPending
          /\ cases[id].volunteerCount = 0
          /\ GetVolunteersByCaseID(caseVolunteers, id) = {}

\* accepted, en_route, on_site, handling, completed
VolunteerRank(status) ==
    CHOOSE n \in 1..5 :
        <<VolunteerStatusAccepted, VolunteerStatusEnRoute, VolunteerStatusOnSite,
          VolunteerStatusHandling, VolunteerStatusCompleted>>[n] = status

\* The storage step of an UpdateVolunteerStatus by worker w
UpdateVolunteerStatusCommits(w) ==
    /\ req[w].op = "UpdateVolunteerStatus"
    /\ req[w].pc = "updateVolunteerStatus"
    /\ req'[w].pc = "createUpdate"

\* C23: UpdateVolunteerStatus never moves a record that is not withdrawn to
\* an earlier status of accepted, en_route, on_site, handling, completed: it
\* leaves the status, advances it, or sets withdrawn.
C23_VolunteerStatusAdvances ==
    [][\A w \in Workers :
         UpdateVolunteerStatusCommits(w) =>
            \A old \in VolunteerRows(caseVolunteers, req[w].caseID, req[w].userID) :
                \A new \in VolunteerRows(caseVolunteers', req[w].caseID, req[w].userID) :
                    old.status # VolunteerStatusWithdrawn =>
                        \/ new.status = VolunteerStatusWithdrawn
                        \/ VolunteerRank(old.status) <= VolunteerRank(new.status)]_vars

\* Worker w makes the repository call pc of handler op in this step
Calls(w, op, pc) == At(w, op, pc) /\ req'[w] # req[w]

\* C24: a volunteer record becomes withdrawn only in Withdraw's RemoveVolunteer
\* and stops being withdrawn only in Accept's ReactivateVolunteer; no
\* UpdateVolunteerStatus sets a record to withdrawn or makes a withdrawn
\* record active.
C24_WithdrawnOnlyByWithdrawAndAccept ==
    [][\A old \in caseVolunteers : \A new \in caseVolunteers' :
         new.id = old.id =>
            /\ (old.status # VolunteerStatusWithdrawn /\ new.status = VolunteerStatusWithdrawn)
                  => \E w \in Workers : Calls(w, "Withdraw", "removeVolunteer")
            /\ (old.status = VolunteerStatusWithdrawn /\ new.status # VolunteerStatusWithdrawn)
                  => \E w \in Workers : Calls(w, "Accept", "reactivateVolunteer")]_vars

\* C25: with requests handled one at a time, so that no two Accept calls
\* overlap, a case never has more volunteer records that are not withdrawn
\* than its maxVolunteers.
C25_ActiveRecordsWithinCapacity ==
    \A id \in CaseIds :
        Exists(cases, id) =>
            Cardinality(ActiveRows(caseVolunteers, id)) <= cases[id].maxVolunteers

\* C26: the write of Update leaves the case's volunteerCount, acceptedAt and
\* resolvedAt as they are in storage, and its status too when the patch names
\* no status, whatever was committed since Update read the case.
C26_UpdateWritesOnlyItsPatch ==
    [][\A w \in Workers :
         Calls(w, "Update", "save") =>
            LET id == req[w].caseID
            IN  /\ cases'[id].volunteerCount = cases[id].volunteerCount
                /\ cases'[id].acceptedAt = cases[id].acceptedAt
                /\ cases'[id].resolvedAt = cases[id].resolvedAt
                /\ req[w].status = Nil => cases'[id].status = cases[id].status]_vars

\* Worker w handles an Accept of volunteer u on case id.
Accepting(w, id, u) ==
    req[w].op = "Accept" /\ req[w].caseID = id /\ req[w].userID = u

\* C27: of two Accept calls of one volunteer on one case that are handled
\* at the same time at most one takes effect: while the other call is in
\* progress, a call commits its count increase and goes on to append its
\* volunteer_joined entry only if the volunteer's record was not active
\* already, so the two calls raise volunteerCount by one, not by two.
C27_OverlappingAcceptsOneTakesEffect ==
    [][\A w1, w2 \in Workers :
         (/\ w1 # w2
          /\ AcceptCommits(w1)
          /\ Accepting(w2, req[w1].caseID, req[w1].userID))
            => ~HasActiveRecord(caseVolunteers, req[w1].caseID, req[w1].userID)]_vars

\* The statuses of a case that is over
Closed(status) ==
    status \in {CaseStatusResolved, CaseStatusCancelled, CaseStatusExpired}

\* C28: the status of a case that is resolved, cancelled or expired is
\* changed by nothing but the write of the reporter's Update: the completion
\* check does not make a cancelled or expired case resolved, and Delete does
\* not make a resolved or expired case cancelled.
C28_ClosedStatusOnlyChangedByUpdate ==
    [][\A id \in CaseIds :
         (Closed(cases[id].status) /\ cases'[id].status # cases[id].status)
            => \E w \in Workers : Calls(w, "Update", "save") /\ req[w].caseID = id]_vars

\* The case is active, has a completed volunteer record, and every one of
\* its records is completed or withdrawn
CompletedAndAllDone(id) ==
    /\ IsActive(cases[id].status)
    /\ AllDone(GetVolunteersByCaseID(caseVolunteers, id))
    /\ \E v \in GetVolunteersByCaseID(caseVolunteers, id) :
          v.status = VolunteerStatusCompleted

\* C29: an active case with a completed volunteer record and every record
\* completed or withdrawn is eventually resolved, unless a record becomes
\* active again before; this also when the last active volunteer's Withdraw
\* is what leaves every record completed or withdrawn.
C29_AllDoneLeadsToResolved ==
    \A id \in CaseIds :
        CompletedAndAllDone(id) ~>
            \/ cases[id].status = CaseStatusResolved
            \/ ~AllDone(GetVolunteersByCaseID(caseVolunteers, id))

\* C30: a case whose status is pending has no volunteer record in a status
\* other than withdrawn.
C30_PendingCaseHasNoActiveRecord ==
    \A id \in CaseIds :
        cases[id].status = CaseStatusPending => ActiveRows(caseVolunteers, id) = {}

\* The last entry of a timeline, Nil when it is empty
LastUpdate(ups) == IF Len(ups) = 0 THEN Nil ELSE ups[Len(ups)]

\* C31: when an Update with a status returns, the last entry of the case's
\* timeline is its status_change entry, from the status the case had right
\* before the write to the status it has after, if the write succeeded; if
\* the write failed the timeline has no status_change entry of the call.
C31_StatusChangeLoggedIffSaved ==
    [][\A w \in Workers :
         (Calls(w, "Update", "save") /\ req[w].status # Nil) =>
            LET id == req[w].caseID
                last == LastUpdate(caseUpdates'[id])
            IN  IF response'.result = "ok"
                THEN last = CaseUpdate("status_change", req[w].userID,
                                       cases[id].status, cases'[id].status)
                ELSE last # CaseUpdate("status_change", req[w].userID,
                                       cases[id].status, req[w].status)]_vars

\* C32: every case in storage has the detail record of its own type, so a
\* Create whose request lacks the fields of its type's detail record has not
\* stored a case.
C32_CaseHasDetailsOfItsType ==
    \A id \in CaseIds :
        Exists(cases, id) => cases[id].details = cases[id].caseType

\* C33: UpdateVolunteerStatus by a user without a volunteer record on the
\* case returns NOT_ACCEPTED at once: the handler goes no further, so no
\* case, no volunteer record and no timeline changes and no completion check
\* is started; a handler of UpdateVolunteerStatus that is under way always
\* has its caller's record.
C33_StatusUpdateWithoutRecordRejected ==
    [][\A w \in Workers :
         /\ \A id \in CaseIds, u \in Volunteers, s \in VolunteerStatusInputs :
              (/\ UpdateVolunteerStatus(w, id, u, s)
               /\ GetVolunteer(caseVolunteers, id, u) = Nil)
                 => /\ response' = Response("UpdateVolunteerStatus", "NOT_ACCEPTED")
                    /\ Idle(w)'
                    /\ UNCHANGED <<cases, caseVolunteers, caseUpdates,
                                   totalCasesResolved, tasks>>
         /\ req'[w].op = "UpdateVolunteerStatus"
              => GetVolunteer(caseVolunteers', req'[w].caseID, req'[w].userID) # Nil]_vars

C33_Witness ==
    /\ response = Response("UpdateVolunteerStatus", "NOT_ACCEPTED")
    /\ \E id \in CaseIds :
          /\ Exists(cases, id)
          /\ GetVolunteer(caseVolunteers, id, "u1") = VolunteerStatusAccepted
          /\ GetVolunteer(caseVolunteers, id, "u2") = Nil
          /\ \A w \in Workers : Idle(w)

\* The volunteer_withdrawn entries of a timeline
Withdrawals(ups) ==
    {n \in DOMAIN ups : ups[n].updateType = "volunteer_withdrawn"}

\* C34: volunteerCount is never negative, also after one volunteer's
\* Withdraw calls have run repeatedly or at the same time.
C34_VolunteerCountNotNegative ==
    \A id \in CaseIds : cases[id].volunteerCount >= 0

C34_Witness ==
    \E id \in CaseIds, u \in Volunteers :
        /\ cases[id].volunteerCount = 0
        /\ GetVolunteersByCaseID(caseVolunteers, id) =
              {v \in caseVolunteers : v.volunteerID = u}
        /\ GetVolunteer(caseVolunteers, id, u) = VolunteerStatusWithdrawn
        /\ Cardinality(Withdrawals(caseUpdates[id])) = 3

\* The point the volunteer is to be measured from: the center of a volunteer
\* who does not use the current location and has a center, else the live
\* location, NilPoint when neither is there
ComparisonPoint(uwp) ==
    IF uwp.useCurrentLocation = Some(FALSE) /\ uwp.center # NilPoint
    THEN uwp.center
    ELSE uwp.location

\* A true match of the call: an available volunteer with push not disabled,
\* whose comparison point is within the volunteer's own radius of the case,
\* and whose case types, if any, have the type asked for
Qualifies(uwp) ==
    /\ uwp.isAvailable
    /\ uwp.isActive
    /\ uwp.pushEnabled # Some(FALSE)
    /\ ComparisonPoint(uwp) # NilPoint
    /\ DistanceKm(NewGeoPoint(call.lat, call.lng), ComparisonPoint(uwp)) <= OwnRadiusKm(uwp)
    /\ (uwp.caseTypes = Null \/ call.caseType \in Value(uwp.caseTypes))

\* The volunteers a call of FindAvailableVolunteers returned
Returned == {call.result[i].user : i \in 1..Len(call.result)}

\* C35: when fewer volunteers than the limit are true matches, every true
\* match is in what FindAvailableVolunteers returns, whatever the scan
\* radius of the bounding box is.
C35_PrefilterKeepsTrueMatches ==
    (call.op = "FindAvailableVolunteers" /\ call.returned) =>
        LET matches == {uwp \in call.users : Qualifies(uwp)}
        IN  Cardinality(matches) < call.limit =>
               \A uwp \in matches : uwp.id \in Returned

\* The volunteer has use_current_location false and a center location
MeasuredFromCenter(uwp) ==
    uwp.useCurrentLocation = Some(FALSE) /\ uwp.center # NilPoint

\* C36: for a volunteer with useCurrentLocation false and a center, the live
\* location plays no part: when the limit does not cut the result, the
\* volunteer is returned exactly if available, with push not disabled, with
\* the center within the volunteer's own radius of the case and with fitting
\* case types, and the distance returned is the one to the center; so such a
\* volunteer is not skipped for having no live location.
C36_CenterDecidesAloneWhenSet ==
    (call.op = "FindAvailableVolunteers" /\ call.returned) =>
        \A uwp \in call.users :
            MeasuredFromCenter(uwp) =>
                /\ \A i \in 1..Len(call.result) :
                      call.result[i].user = uwp.id =>
                          call.result[i].DistanceKm =
                              DistanceKm(NewGeoPoint(call.lat, call.lng), uwp.center)
                /\ Cardinality(call.users) <= call.limit =>
                      (uwp.id \in Returned <=> Qualifies(uwp))

\* The volunteers that pass the checks of the matcher's loop in a call
Qualifying ==
    Matches(call.users, call.lat, call.lng, call.radiusKm, call.caseType)

\* C37: what FindAvailableVolunteers returns is in ascending order of
\* distance, has at most limit entries, all of them volunteers that passed
\* the checks and none twice, as many as passed up to the limit, and no
\* volunteer that passed and was left out is nearer than a returned one.
C37_NearestWithinLimit ==
    (call.op = "FindAvailableVolunteers" /\ call.returned) =>
        LET result == call.result
            kept == {result[i] : i \in 1..Len(result)}
        IN  /\ \A i, j \in 1..Len(result) :
                  i < j => result[i].DistanceKm <= result[j].DistanceKm
            /\ Len(result) <= call.limit
            /\ kept \subseteq Qualifying
            /\ Cardinality(kept) = Len(result)
            /\ Len(result) = IF Cardinality(Qualifying) < call.limit
                             THEN Cardinality(Qualifying) ELSE call.limit
            /\ \A out \in Qualifying \ kept, v \in kept : v.DistanceKm <= out.DistanceKm

\* Two volunteers at different distances passed the checks and the limit
\* of one kept the nearer
C37_Witness ==
    /\ call.op = "FindAvailableVolunteers"
    /\ call.returned
    /\ call.limit = 1
    /\ Len(call.result) = 1
    /\ Cardinality(Qualifying) = 2
    /\ \E out \in Qualifying : out.DistanceKm > call.result[1].DistanceKm

\* The batches of the call that hold token k
BatchesOf(k) ==
    {b \in DOMAIN call.batches : call.batches[b].from <= k /\ k < call.batches[b].to}

\* C38: a call of SendToTokens on an enabled service that has returned put
\* every token of its list in exactly one batch, no batch has more than 500
\* tokens, and it returned no error, whichever batches failed.
C38_EveryTokenInOneBatch ==
    (/\ call.op = "SendToTokens"
     /\ call.returned
     /\ call.enabled
     /\ call.tokens > 0)
        => /\ \A k \in 0..(call.tokens - 1) : Cardinality(BatchesOf(k)) = 1
           /\ \A b \in DOMAIN call.batches :
                 /\ call.batches[b].to - call.batches[b].from <= 500
                 /\ call.batches[b].to - call.batches[b].from >= 1
           /\ call.result = Nil

\* 1001 tokens went out in three batches, the first of which failed as a whole
C38_Witness ==
    /\ call.op = "SendToTokens"
    /\ call.returned
    /\ call.enabled
    /\ call.tokens = 1001
    /\ Len(call.batches) = 3
    /\ call.batches[1].outcome = "error"
    /\ call.batches[3] = [from |-> 1000, to |-> 1001, outcome |-> "sent"]
    /\ call.result = Nil

\* How many requests of a key were admitted at the instants from..to
AdmittedWithin(key, from, to) ==
    Cardinality({n \in DOMAIN call.admitted[key] :
                    from <= call.admitted[key][n] /\ call.admitted[key][n] <= to})

\* C39: for each key, the requests Allow has admitted in any interval of
\* the length of the window are at most limit, whatever the order of the
\* Allow calls and the sweeps of cleanup.
C39_AtMostLimitPerWindow ==
    call.op = "RateLimiter" =>
        \A key \in LimiterKeys, from \in 0..MaxTime :
            AdmittedWithin(key, from, from + call.window) <= call.limit

\* The only key that called was admitted limit times, denied once, and
\* admitted again after more than the window had passed
C39_Witness ==
    /\ call.op = "RateLimiter"
    /\ call.limit = 2
    /\ \E key \in LimiterKeys :
          /\ Len(call.admitted[key]) = 3
          /\ call.admitted[key][2] + call.window < call.admitted[key][3]
          /\ call.requests[key] = Some([count |-> 1, lastSeen |-> call.now])
          /\ \A other \in LimiterKeys \ {key} : call.admitted[other] = <<>>
          /\ opsStarted = 4

\* C40: Allow denies a request of a key only if limit requests of the key
\* were admitted in the window that ends at the request.
C40_DeniedOnlyAfterLimitInWindow ==
    [][\A key \in LimiterKeys :
         (Allow(key) /\ call'.allowed = Some(FALSE))
            => AdmittedWithin(key, call.now - call.window, call.now) >= call.limit]_vars


====
